---- MODULE Spec2Model ----
(***************************************************************************)
(* The resilience layer of homehttp: the rate-limiter primitives (token    *)
(* bucket, fixed window), the per-host scoping layer, the adaptive         *)
(* limiter, the rate-limit strategy and the client's retry loop.           *)
(*                                                                         *)
(* Time is a discrete clock `now` counted in ticks.  One specification per *)
(* subsystem drives the shared state: each has its own Init and Next,      *)
(* and leaves the variables of the other subsystems untouched.             *)
(***************************************************************************)
EXTENDS Integers, Sequences, FiniteSets, TLC

VARIABLES
    now,        \* the wall clock, in ticks (time.Now())
    lims,       \* the limiter instances on the heap: a sequence, index = identity
    pc,         \* per goroutine: where it stands
    wake,       \* per goroutine: the instant its pending timer fires
    gCalls,     \* ghost: admission attempts made (Allow calls, Wait calls and Wait re-checks)
    gAdmits,    \* ghost: admissions granted (true from Allow, nil from Wait)
    gWaits,     \* ghost: number of Wait calls started
    gResets,    \* ghost: number of window resets performed
    gWinCalls,  \* ghost: admission attempts made since the last window reset
    gWinAdmits, \* ghost: admissions granted since the last window reset
    gLog,       \* ghost: the Allow calls made so far, <<time, result>> each
    scope,      \* ScopedRateLimiter.scope
    clientLimit,\* ScopedRateLimiter.clientLimit: a limiter identity, 0 for nil
    hostMap,    \* PerHostRateLimiter.limiters: host -> limiter identity, 0 when absent
    factory,    \* PerHostRateLimiter.factory: what a call of it returns
    loc,        \* per goroutine: the locals of the call it is in (host, kind, limiter)
    gShadow,    \* ghost: per host, a stand-alone limiter fed only that host's calls
    gHostAdmits,\* ghost: per host, the admissions granted
    gDiscarded, \* ghost: the state of the last limiter a racing loser dropped
    gAgree,     \* ghost: every scoped call so far got the result its host's shadow gave
    ad,         \* the AdaptiveRateLimiter: backoffUntil, lastObservedLimit (its base is lims[1])
    adLoc,      \* per goroutine: the locals of its adaptive call (the backoffUntil it read)
    ret,        \* per goroutine: what its last finished adaptive call returned
    gObs,       \* ghost: the most recent non-nil ObserveResponse (instant, shape)
    gObsCount,  \* ghost: number of ObserveResponse calls made
    cfg,        \* the Client: maxRetries, retryer, backoff, retryWaitMin/Max, rate-limit strategy
    srv,        \* the server: how many 5xx answers it still gives, and its answer after them
    call,       \* the DoJSON call in progress: position, attempt number i, pending timer, ...
    ctxDone,    \* the call's context: "" while live, else its error
    result,     \* what the last finished DoJSON call returned: (response, error)
    gServerSeen,\* ghost: requests the server has seen
    gIdleClosed,\* ghost: calls of CloseIdleConnections made by the current or last DoJSON call
    gClCalls,   \* ghost: DoJSON calls started
    gLastSent,  \* ghost: the number of requests the last finished call sent
    gPlain      \* ghost: so far every call kept a live context, met no transport failure and retried nothing

limVars == <<lims>>
procVars == <<pc, wake>>
winGhost == <<gResets, gWinCalls, gWinAdmits>>
ghostVars == <<gCalls, gAdmits, gWaits, gLog, winGhost>>
hostVars == <<scope, clientLimit, hostMap, factory, loc, gShadow, gHostAdmits, gDiscarded, gAgree>>
adVars == <<ad, adLoc, ret, gObs, gObsCount>>
clVars == <<cfg, srv, call, ctxDone, result, gServerSeen, gIdleClosed, gClCalls, gLastSent, gPlain>>

vars == <<now, limVars, procVars, ghostVars, hostVars, adVars, clVars>>

\* the variables each subsystem's specification leaves alone
outsidePrimitives == <<hostVars, adVars, clVars>>
outsideHost == <<gWaits, gLog, winGhost, adVars, clVars>>
outsideAdaptive == <<gWaits, gLog, winGhost, hostVars, clVars>>
outsideClient == <<procVars, ghostVars, hostVars, adLoc, ret, gObs, gObsCount>>

----------------------------------------------------------------------------
(* Bounds of the model. *)

NumProcs == 2           \* concurrent goroutines
MaxBurst == 2           \* largest burst / window limit explored
TicksPerToken == 2      \* the token-bucket rate R is 1 token per TicksPerToken ticks (1/R)
WindowTicks == 2        \* the window W of the fixed-window limiter, in ticks
ExtraTicks == 2         \* how far the clock runs beyond one refill period / window

Min(a, b) == IF a < b THEN a ELSE b
Max(a, b) == IF a > b THEN a ELSE b

MaxTime == Max(TicksPerToken, WindowTicks) + ExtraTicks
MaxCalls == MaxBurst + 3
HostMaxCalls == 3       \* calls made on a scoped limiter
HostTicks == 2          \* how far the clock runs while a scoped limiter is used

Procs == 1..NumProcs

----------------------------------------------------------------------------
(* TokenBucketRateLimiter: a thin wrapper of golang.org/x/time/rate.Limiter *)
(* (ratelimit.go:9,41,52).  Token counts are kept in units of               *)
(* 1/TicksPerToken token, so that one tick refills exactly one unit and the *)
(* limiter's float arithmetic is exact.                                     *)

TokenUnit == TicksPerToken      \* one whole token, in units

\* NewTokenBucketRateLimiter(rate, burst): the bucket starts full.
NewTokenBucketRateLimiter(burst) ==
    [kind |-> "tb", burst |-> burst, tokens |-> burst * TokenUnit, last |-> 0]

\* rate.Limiter.advance: the token count refilled up to instant t, capped at burst.
TBAdvanceUncapped(l, t) ==
    LET last == IF t < l.last THEN t ELSE l.last
    IN  l.tokens + (t - last)

TBAdvance(l, t) ==
    LET last == IF t < l.last THEN t ELSE l.last
        tokens == l.tokens + (t - last)
    IN  IF tokens > l.burst * TokenUnit THEN l.burst * TokenUnit ELSE tokens

\* rate.Limiter.reserveN(t, 1, maxFutureReserve): spend one token, possibly one
\* that is only refilled in the future.  maxFutureReserve = -1 stands for InfDuration.
\* Returns the reservation and the limiter's new state.
TBReserveOverdraw(l, t, maxFutureReserve) ==
    LET tokens == TBAdvance(l, t) - TokenUnit
        waitDuration == IF tokens < 0 THEN -tokens ELSE 0
        ok == /\ 1 <= l.burst
              /\ (maxFutureReserve = -1 \/ waitDuration <= maxFutureReserve + TokenUnit)
    IN  [ok |-> ok, timeToAct |-> t + waitDuration,
         lim |-> IF ok THEN [l EXCEPT !.tokens = tokens, !.last = t] ELSE l]

TBReserve(l, t, maxFutureReserve) ==
    LET tokens == TBAdvance(l, t) - TokenUnit
        waitDuration == IF tokens < 0 THEN -tokens ELSE 0
        ok == /\ 1 <= l.burst
              /\ (maxFutureReserve = -1 \/ waitDuration <= maxFutureReserve)
    IN  [ok |-> ok, timeToAct |-> t + waitDuration,
         lim |-> IF ok THEN [l EXCEPT !.tokens = tokens, !.last = t] ELSE l]

\* TokenBucketRateLimiter.Allow: rate.Limiter.Allow = reserveN(now, 1, 0).ok
TBAllow(l, t) == TBReserve(l, t, 0)

\* TokenBucketRateLimiter.Wait without a deadline: reserveN(now, 1, InfDuration),
\* refused at once when n = 1 exceeds the burst.
TBWaitReserve(l, t) ==
    IF 1 > l.burst THEN [ok |-> FALSE, timeToAct |-> t, lim |-> l]
    ELSE TBReserve(l, t, -1)

\* the errors of rate.Limiter.Wait that are not the context's
ErrExceedsBurst == "rate: Wait(n=1) exceeds limiter's burst"
ErrWouldExceedDeadline == "rate: Wait(n=1) would exceed context deadline"

\* TokenBucketRateLimiter.Wait(ctx) up to its select, at instant t, for a
\* context that has ended or not (ctxEnded) and whose deadline is `deadline`
\* (-1: none): the error it returns at once ("" for nil), or the instant
\* until which it sleeps, and the limiter's new state
TBWaitCtx(l, t, ctxEnded, ctxErr, deadline) ==
    LET waitLimit == IF deadline = -1 THEN -1 ELSE Max(deadline - t, 0)
        r == TBReserve(l, t, waitLimit)
    IN  IF 1 > l.burst
        THEN [err |-> ErrExceedsBurst, sleeps |-> FALSE, timeToAct |-> t, lim |-> l]
        ELSE IF ctxEnded
        THEN [err |-> ctxErr, sleeps |-> FALSE, timeToAct |-> t, lim |-> l]
        ELSE IF ~r.ok
        THEN [err |-> ErrWouldExceedDeadline, sleeps |-> FALSE, timeToAct |-> t, lim |-> l]
        ELSE [err |-> "", sleeps |-> r.timeToAct > t, timeToAct |-> r.timeToAct, lim |-> r.lim]

\* Reservation.Cancel at instant t of the limiter's most recent reservation,
\* which is for timeToAct: its token is given back unless it is already due
TBCancelKeepsDebt(l, t, timeToAct) == l

TBCancel(l, t, timeToAct) ==
    IF timeToAct < t THEN l
    ELSE [l EXCEPT !.tokens = Min(TBAdvance(l, t) + TokenUnit, l.burst * TokenUnit),
                   !.last = t]

----------------------------------------------------------------------------
(* FixedWindowRateLimiter (ratelimit.go:66-154). *)

MinWindow == 1      \* time.Nanosecond: the smallest positive duration, one tick

NewFixedWindowRateLimiter(limit, window, t) ==
    [kind |-> "fw",
     limit |-> IF limit < 0 THEN 0 ELSE limit,
     window |-> IF window <= 0 THEN MinWindow ELSE window,
     count |-> 0, windowStart |-> t, mu |-> 0]

\* maybeResetWindow at instant t
MaybeResetWindowEarly(l, t) ==
    IF t - l.windowStart >= l.window - 1
    THEN [l EXCEPT !.count = 0, !.windowStart = t]
    ELSE l

MaybeResetWindowNever(l, t) == l

MaybeResetWindow(l, t) ==
    IF t - l.windowStart >= l.window
    THEN [l EXCEPT !.count = 0, !.windowStart = t]
    ELSE l

\* the admission test shared by Allow and Wait: count < limit
FwHasRoomOffByOne(l) == l.count <= l.limit

FwHasRoom(l) == l.count < l.limit

\* the body of Allow under the mutex: reset if expired, admit if room
FwTryAdmit(l, t) ==
    LET r == MaybeResetWindow(l, t)
    IN  IF FwHasRoom(r)
        THEN [ok |-> TRUE, lim |-> [r EXCEPT !.count = r.count + 1]]
        ELSE [ok |-> FALSE, lim |-> r]

\* waitTime := window - time.Since(windowStart), floored at zero
FwWaitTime(l, t) == Max(0, l.window - (t - l.windowStart))

----------------------------------------------------------------------------
(* AdaptiveRateLimiter.  A header value is a string, modelled as a sequence *)
(* of one-character strings; an absent header reads as the empty string.    *)
(* Go's int, int64 and time.Duration are IntBits bits wide here, and        *)
(* time.Second is SecondTicks ticks, so that the products the code computes *)
(* leave the integer range at small values as they do at large ones in Go.  *)

IntBits == 4            \* width of int / int64 / time.Duration
SecondTicks == 2        \* time.Second, in ticks

MaxInt == 2^(IntBits - 1) - 1
MinInt == 0 - 2^(IntBits - 1)

\* two's-complement wrap-around of an int64 result
WrapInt(x) == ((x - MinInt) % 2^IntBits) + MinInt

DigitChars == {"0", "1", "2", "3", "4", "5", "6", "7", "8", "9"}

DigitVal(c) ==
    CASE c = "0" -> 0 [] c = "1" -> 1 [] c = "2" -> 2 [] c = "3" -> 3 [] c = "4" -> 4
      [] c = "5" -> 5 [] c = "6" -> 6 [] c = "7" -> 7 [] c = "8" -> 8 [] c = "9" -> 9

IsDigits(s) == Len(s) > 0 /\ \A i \in 1..Len(s) : s[i] \in DigitChars

RECURSIVE DecVal(_)
DecVal(s) ==
    IF s = <<>> THEN 0
    ELSE DecVal(SubSeq(s, 1, Len(s) - 1)) * 10 + DigitVal(s[Len(s)])

\* strconv.Atoi: an optional sign, then decimal digits only; a value outside
\* the int range is an error (ErrRange), like any other malformed string.
Atoi(s) ==
    LET signed == Len(s) > 0 /\ s[1] \in {"+", "-"}
        body == IF signed THEN Tail(s) ELSE s
        v == IF signed /\ s[1] = "-" THEN 0 - DecVal(body) ELSE DecVal(body)
    IN  IF ~IsDigits(body) THEN [ok |-> FALSE, val |-> 0]
        ELSE IF v > MaxInt \/ v < MinInt THEN [ok |-> FALSE, val |-> 0]
        ELSE [ok |-> TRUE, val |-> v]

\* strconv.ParseInt(s, 10, 64): the same grammar and range as Atoi on a 64-bit int
ParseInt64(s) == Atoi(s)

\* http.ParseTime: an HTTP date is written here as the letter D followed by the
\* digits of the instant it denotes, in seconds; anything else is no date.
ParseTime(s) ==
    IF Len(s) >= 2 /\ s[1] = "D" /\ IsDigits(Tail(s))
    THEN [ok |-> TRUE, t |-> DecVal(Tail(s)) * SecondTicks]
    ELSE [ok |-> FALSE, t |-> 0]

\* the seconds between the internal epoch of time.Time (year 1) and the Unix
\* epoch, scaled to the width of the integers here
UnixToInternal == 2

\* time.Unix(timestamp, 0): the instant is kept as timestamp + unixToInternal
\* seconds in an int64, a sum that wraps
TimeUnixNoWrap(timestamp) == timestamp * SecondTicks

TimeUnix(timestamp) ==
    (WrapInt(timestamp + UnixToInternal) - UnixToInternal) * SecondTicks

\* time.Duration(seconds) * time.Second: an int64 product, which wraps around
DurationSeconds(seconds) == WrapInt(seconds * SecondTicks)

StatusTooManyRequests == 429
DefaultBackoffSeconds == 60

\* the zero time.Time: before every instant of the clock
ZeroTime == -1

\* a nil *http.Response
NilResponse ==
    [status |-> 0, retryAfter |-> <<>>, xReset |-> <<>>, reset |-> <<>>,
     xLimit |-> <<>>, limit |-> <<>>, xRemaining |-> <<>>]

Response(status, retryAfter, xReset, reset, xLimit, limit, xRemaining) ==
    [status |-> status, retryAfter |-> retryAfter, xReset |-> xReset, reset |-> reset,
     xLimit |-> xLimit, limit |-> limit, xRemaining |-> xRemaining]

NewAdaptiveRateLimiter == [backoffUntil |-> ZeroTime, lastObservedLimit |-> 0]

\* handle429Response at instant t: the first applicable rule sets backoffUntil
Handle429Response(a, resp, t) ==
    LET seconds == Atoi(resp.retryAfter)
        date == ParseTime(resp.retryAfter)
        xr == ParseInt64(resp.xReset)
        r == ParseInt64(resp.reset)
    IN  [a EXCEPT !.backoffUntil =
            IF resp.retryAfter # <<>> /\ seconds.ok THEN t + DurationSeconds(seconds.val)
            ELSE IF resp.retryAfter # <<>> /\ date.ok THEN date.t
            ELSE IF resp.xReset # <<>> /\ xr.ok THEN TimeUnix(xr.val)
            ELSE IF resp.reset # <<>> /\ r.ok THEN TimeUnix(r.val)
            ELSE t + DefaultBackoffSeconds * SecondTicks]

\* checkRemainingAndSetBackoff: X-RateLimit-Remaining = 0 with a parseable
\* X-RateLimit-Reset sets backoffUntil, whatever the status
CheckRemainingAndSetBackoff(a, resp) ==
    LET r == Atoi(resp.xRemaining)
        timestamp == ParseInt64(resp.xReset)
    IN  IF resp.xRemaining = <<>> THEN a
        ELSE IF ~r.ok \/ r.val # 0 THEN a
        ELSE IF resp.xReset = <<>> THEN a
        ELSE IF timestamp.ok THEN [a EXCEPT !.backoffUntil = TimeUnix(timestamp.val)]
        ELSE a

\* parseRateLimitHeaders: X-RateLimit-Limit, then RateLimit-Limit, then the
\* remaining/reset rule
ParseRateLimitHeadersOn2xx(a, resp) ==
    LET xl == Atoi(resp.xLimit)
        l == Atoi(resp.limit)
        a1 == IF resp.xLimit # <<>> /\ xl.ok /\ resp.status < 300
              THEN [a EXCEPT !.lastObservedLimit = xl.val] ELSE a
        a2 == IF resp.limit # <<>> /\ l.ok /\ resp.status < 300
              THEN [a1 EXCEPT !.lastObservedLimit = l.val] ELSE a1
    IN  CheckRemainingAndSetBackoff(a2, resp)

ParseRateLimitHeaders(a, resp) ==
    LET xl == Atoi(resp.xLimit)
        l == Atoi(resp.limit)
        a1 == IF resp.xLimit # <<>> /\ xl.ok
              THEN [a EXCEPT !.lastObservedLimit = xl.val] ELSE a
        a2 == IF resp.limit # <<>> /\ l.ok
              THEN [a1 EXCEPT !.lastObservedLimit = l.val] ELSE a1
    IN  CheckRemainingAndSetBackoff(a2, resp)

\* ObserveResponse at instant t, under the write lock
ObserveResponseKeepsLater(a, resp, t) ==
    LET a1 == IF resp = NilResponse THEN a
              ELSE ParseRateLimitHeaders(
                     IF resp.status = StatusTooManyRequests
                     THEN Handle429Response(a, resp, t) ELSE a, resp)
    IN  [a1 EXCEPT !.backoffUntil = Max(a.backoffUntil, a1.backoffUntil)]

ObserveResponseClearsOnSuccess(a, resp, t) ==
    IF resp = NilResponse THEN a
    ELSE LET a1 == IF resp.status = StatusTooManyRequests
                   THEN Handle429Response(a, resp, t)
                   ELSE IF resp.status < 300 THEN [a EXCEPT !.backoffUntil = ZeroTime]
                   ELSE a
         IN  ParseRateLimitHeaders(a1, resp)

ObserveResponse(a, resp, t) ==
    IF resp = NilResponse THEN a
    ELSE LET a1 == IF resp.status = StatusTooManyRequests
                   THEN Handle429Response(a, resp, t) ELSE a
         IN  ParseRateLimitHeaders(a1, resp)

\* time.Now().Before(backoffUntil), on the value of backoffUntil read before
InBackoffEndsEarly(backoffUntil, t) == t + 1 < backoffUntil

InBackoff(backoffUntil, t) == t < backoffUntil

----------------------------------------------------------------------------
(* The rate-limit strategy, the transport middleware and the retry loop of  *)
(* Client.DoJSON.  An error value is named by its cause: the url.Error    *)
(* http.Client.Do wraps a transport error in is left out, and an           *)
(* ErrorResponse is a record that carries the cause as its Original.       *)

ErrRateLimitExceeded == "ErrRateLimitExceeded"

\* AdaptiveRateLimiter.Allow called by a goroutine that no observer
\* interleaves with: false during a backoff, else the base limiter's answer
AdaptiveAllow(a, base, t) ==
    IF InBackoff(a.backoffUntil, t) THEN [ok |-> FALSE, lim |-> base]
    ELSE LET r == TBAllow(base, t) IN [ok |-> r.ok, lim |-> r.lim]

\* ScopedRateLimiter.Allow with scope Client: a nil clientLimit admits; the
\* clientLimit is the adaptive limiter when adaptive is on, else the bucket
ScopedAllow(rl, a, base, t) ==
    IF rl.limiter = "nil" THEN [ok |-> TRUE, lim |-> base]
    ELSE IF rl.adaptive THEN AdaptiveAllow(a, base, t)
    ELSE LET r == TBAllow(base, t) IN [ok |-> r.ok, lim |-> r.lim]

\* rateLimitStrategy.Apply with behavior Error: probe the adaptive limiter
\* first when there is one, then the scoped limiter
ApplyNeverDenies(rl, a, base, t) ==
    LET first == IF rl.adaptive THEN AdaptiveAllow(a, base, t)
                 ELSE [ok |-> FALSE, lim |-> base]
        second == ScopedAllow(rl, a, first.lim, t)
    IN  IF rl.kind = "none" THEN [err |-> "", lim |-> base]
        ELSE IF rl.adaptive /\ ~first.ok THEN [err |-> "", lim |-> first.lim]
        ELSE [err |-> "", lim |-> second.lim]

Apply(rl, a, base, t) ==
    LET first == IF rl.adaptive THEN AdaptiveAllow(a, base, t)
                 ELSE [ok |-> FALSE, lim |-> base]
        second == ScopedAllow(rl, a, first.lim, t)
    IN  IF rl.kind = "none" THEN [err |-> "", lim |-> base]
        ELSE IF rl.adaptive /\ ~first.ok
             THEN [err |-> ErrRateLimitExceeded, lim |-> first.lim]
        ELSE [err |-> IF second.ok THEN "" ELSE ErrRateLimitExceeded, lim |-> second.lim]

\* rateLimitStrategy.Observe: forwarded to the adaptive limiter, if any
Observe(rl, a, resp, t) ==
    IF rl.kind # "none" /\ rl.adaptive THEN ObserveResponse(a, resp, t) ELSE a

StatusInternalServerError == 500

\* RetryOn500x
RetryOn500xAbove500(resp, doErr) ==
    resp # NilResponse /\ resp.status > StatusInternalServerError

RetryOn500x(resp, doErr) ==
    resp # NilResponse /\ resp.status >= StatusInternalServerError

\* RetryStrategy.Classify for the strategies a client is configured with:
\* NoRetry, RetryOn500x, and a RetryStrategyFunc that always answers true
Classify(retryer, resp, doErr) ==
    CASE retryer = "NoRetry" -> FALSE
      [] retryer = "RetryOn500x" -> RetryOn500x(resp, doErr)
      [] retryer = "Always" -> TRUE

\* BackoffStrategy.Backoff(min, max, attemptNum, resp)
Backoff(b, min, max, attemptNum, resp) ==
    CASE b.kind = "NoBackoff" -> 0
      [] b.kind = "Constant" -> b.t
      [] b.kind = "Linear" -> WrapInt(min + attemptNum * b.t)

\* remainAtt := c.maxRetries - i
RemainAttOneMore(maxRetries, i) == maxRetries - i + 1

RemainAtt(maxRetries, i) == maxRetries - i

\* the select on ctx.Done() and timer.C: the cases that are ready
BackoffSelectTimerOnly(ctxEnded, timerFired) ==
    IF timerFired THEN {"timer"} ELSE {}

BackoffSelect(ctxEnded, timerFired) ==
    (IF ctxEnded THEN {"ctx"} ELSE {}) \cup (IF timerFired THEN {"timer"} ELSE {})

\* what DoJSON returns after the loop
AfterLoopIgnoresRetryFlag(resp, doErr, shouldRetry) ==
    IF doErr = ""
    THEN [resp |-> resp, err |-> [kind |-> "nil"]]
    ELSE [resp |-> NilResponse,
          err |-> [kind |-> "ErrorResponse", Response |-> resp, Original |-> doErr]]

AfterLoop(resp, doErr, shouldRetry) ==
    IF doErr = "" /\ ~shouldRetry
    THEN [resp |-> resp, err |-> [kind |-> "nil"]]
    ELSE [resp |-> NilResponse,
          err |-> [kind |-> "ErrorResponse", Response |-> resp, Original |-> doErr]]

\* what DoJSON returns from the ctx.Done() case: req.Context().Err() as it is
Aborted(ctxErr) == [resp |-> NilResponse, err |-> [kind |-> ctxErr]]

----------------------------------------------------------------------------
(* Specification SpecTokenBucket: NumProcs goroutines share one token       *)
(* bucket (lims[1]) and call Allow and Wait on it while the clock advances. *)

Hosts == {"a", "b"}

\* a heap cell whose limiter is no longer referenced and was collected
Freed == [kind |-> "freed"]

NoLoc == [host |-> "", kind |-> "", lim |-> 0, fresh |-> 0, lost |-> FALSE]

NoAdLoc == [backoffUntil |-> ZeroTime, seen |-> 0]

NoObs == [t |-> 0, shape |-> "none", n |-> 0]

\* the server between calls
NoServer == [left |-> 0, final |-> NilResponse]

\* no DoJSON call in progress
NoCall == [pc |-> "idle", i |-> 0, wake |-> 0, pending |-> NilResponse, sent |-> 0, k0 |-> 0]

\* the (response, error) pair before any call has returned
NoResult == [resp |-> NilResponse, err |-> [kind |-> "none"]]

\* everything at rest, but for the scoped limiter's clientLimit
InitAtRest ==
    /\ now = 0
    /\ pc = [p \in Procs |-> "idle"]
    /\ wake = [p \in Procs |-> 0]
    /\ gCalls = 0
    /\ gAdmits = 0
    /\ gWaits = 0
    /\ gResets = 0
    /\ gWinCalls = 0
    /\ gWinAdmits = 0
    /\ gLog = <<>>
    /\ hostMap = [h \in Hosts |-> 0]
    /\ loc = [p \in Procs |-> NoLoc]
    /\ gHostAdmits = [h \in Hosts |-> 0]
    /\ gAgree = TRUE
    /\ gDiscarded = Freed
    /\ ad = NewAdaptiveRateLimiter
    /\ adLoc = [p \in Procs |-> NoAdLoc]
    /\ ret = [p \in Procs |-> "none"]
    /\ gObs = NoObs
    /\ gObsCount = 0
    /\ call = NoCall
    /\ ctxDone = ""
    /\ result = NoResult
    /\ gServerSeen = 0
    /\ gIdleClosed = 0
    /\ gClCalls = 0
    /\ gLastSent = 0
    /\ gPlain = TRUE

InitCommon ==
    /\ InitAtRest
    /\ clientLimit = 0

\* the clock advances by one tick (bounded by MaxTime)
Tick ==
    /\ now < MaxTime
    /\ now' = now + 1
    /\ UNCHANGED <<limVars, procVars, ghostVars, hostVars, adVars, clVars>>

\* no scoped limiter is in play
InitNoScope ==
    /\ scope = "client"
    /\ factory = [kind |-> "none"]
    /\ gShadow = [h \in Hosts |-> 0]

\* no client is in play
InitNoClient ==
    /\ cfg = [kind |-> "none"]
    /\ srv = NoServer

InitTB ==
    /\ InitCommon
    /\ InitNoScope
    /\ InitNoClient
    /\ \E b \in 0..MaxBurst : lims = <<NewTokenBucketRateLimiter(b)>>

\* tb.Allow(ctx): one call of rate.Limiter.Allow, atomic under the limiter's mutex
TBAllowCall(p) ==
    /\ pc[p] = "idle"
    /\ gCalls < MaxCalls
    /\ LET r == TBAllow(lims[1], now)
       IN  /\ lims' = [lims EXCEPT ![1] = r.lim]
           /\ gLog' = Append(gLog, <<now, r.ok>>)
           /\ gAdmits' = gAdmits + (IF r.ok THEN 1 ELSE 0)
    /\ gCalls' = gCalls + 1
    /\ UNCHANGED <<now, procVars, gWaits, winGhost, outsidePrimitives>>

\* tb.Wait(ctx), ctx without deadline: reserve a token; return nil at once when
\* the reservation needs no delay, an error when 1 exceeds the burst, and
\* otherwise sleep until the reservation's timeToAct.
TBWaitCall(p) ==
    /\ pc[p] = "idle"
    /\ gCalls < MaxCalls
    /\ LET r == TBWaitReserve(lims[1], now)
       IN  /\ lims' = [lims EXCEPT ![1] = r.lim]
           /\ IF r.ok /\ r.timeToAct > now
              THEN /\ pc' = [pc EXCEPT ![p] = "sleep"]
                   /\ wake' = [wake EXCEPT ![p] = r.timeToAct]
                   /\ gAdmits' = gAdmits
              ELSE /\ UNCHANGED procVars
                   /\ gAdmits' = gAdmits + (IF r.ok THEN 1 ELSE 0)
    /\ gCalls' = gCalls + 1
    /\ gWaits' = gWaits + 1
    /\ UNCHANGED <<now, winGhost, gLog, outsidePrimitives>>

\* the timer of a sleeping Wait has fired: Wait returns nil
TBWaitDone(p) ==
    /\ pc[p] = "sleep"
    /\ now >= wake[p]
    /\ pc' = [pc EXCEPT ![p] = "idle"]
    /\ gAdmits' = gAdmits + 1
    /\ UNCHANGED <<now, limVars, wake, gCalls, gWaits, winGhost, gLog, outsidePrimitives>>

NextTB ==
    \/ Tick
    \/ \E p \in Procs : TBAllowCall(p)
    \/ \E p \in Procs : TBWaitCall(p)
    \/ \E p \in Procs : TBWaitDone(p)

SpecTokenBucket == InitTB /\ [][NextTB]_vars

\* number of goroutines sleeping in Wait on a reserved token
TBSleepers == Cardinality({p \in Procs : pc[p] = "sleep"})

----------------------------------------------------------------------------
(* Claims about the token bucket (SpecTokenBucket). *)

\* the first i logged Allow calls were all made at instant 0
AllAtZero(i) == \A j \in 1..i : gLog[j][1] = 0

\* C6: for a bucket of burst B >= 1 and finite rate R that starts full and is
\* used through Allow only: of the Allow calls made with no time elapsed the
\* first B return true and every later one (the (B+1)-th) returns false; when
\* B+1 calls were made at instant 0 and the following calls are made exactly
\* 1/R later, the first of those returns true and the next ones return false.
C6_BurstThenOnePerPeriod ==
    LET B == lims[1].burst
        n == Len(gLog)
    IN  (gWaits = 0 /\ B >= 1) =>
            /\ \A i \in 1..n : AllAtZero(i) => (gLog[i][2] <=> i <= B)
            /\ \A i \in (B + 2)..n :
                 (AllAtZero(B + 1) /\ \A j \in (B + 2)..i : gLog[j][1] = TicksPerToken)
                     => (gLog[i][2] <=> i = B + 2)

\* C6 witness: B+1 calls at instant 0, then two calls one refill period later,
\* the first admitted and the second denied.
C6_Witness ==
    LET B == lims[1].burst
    IN  /\ gWaits = 0 /\ B >= 1
        /\ Len(gLog) = B + 3
        /\ AllAtZero(B + 1)
        /\ gLog[B + 1][2] = FALSE
        /\ gLog[B + 2] = <<TicksPerToken, TRUE>>
        /\ gLog[B + 3] = <<TicksPerToken, FALSE>>

\* with no time elapsed, the admissions granted are min(burst, calls made)
TBAdmissionsAtZero == now = 0 => gAdmits = Min(lims[1].burst, gCalls)

----------------------------------------------------------------------------
(* Specification SpecFixedWindow: NumProcs goroutines share one             *)
(* FixedWindowRateLimiter (lims[1]) and call Allow and Wait on it while the *)
(* clock advances.  fw.mu is the field mu: 0 when free, else its holder.    *)

InitFW ==
    /\ InitCommon
    /\ InitNoScope
    /\ InitNoClient
    /\ \E limit \in (-1)..MaxBurst, window \in {0, WindowTicks} :
           lims = <<NewFixedWindowRateLimiter(limit, window, 0)>>

\* the ghost counters after an admission attempt that took the limiter from l to r.lim
FwGhost(l, r) ==
    LET reset == r.lim.windowStart # l.windowStart
        a == IF r.ok THEN 1 ELSE 0
    IN  /\ gCalls' = gCalls + 1
        /\ gAdmits' = gAdmits + a
        /\ gResets' = gResets + (IF reset THEN 1 ELSE 0)
        /\ gWinCalls' = (IF reset THEN 0 ELSE gWinCalls) + 1
        /\ gWinAdmits' = (IF reset THEN 0 ELSE gWinAdmits) + a

\* fw.Allow(ctx): lock, maybeResetWindow, admit if count < limit, unlock
FwAllowCall(p) ==
    /\ pc[p] = "idle"
    /\ gCalls < MaxCalls
    /\ lims[1].mu = 0
    /\ LET r == FwTryAdmit(lims[1], now)
       IN  /\ lims' = [lims EXCEPT ![1] = r.lim]
           /\ FwGhost(lims[1], r)
    /\ UNCHANGED <<now, procVars, gWaits, gLog, outsidePrimitives>>

\* one round of the loop of fw.Wait up to the admission test: lock,
\* maybeResetWindow, and either admit (count++, unlock, return nil) or keep
\* the mutex to compute the wait time
FwWaitCheck(p) ==
    /\ lims[1].mu = 0
    /\ LET r == FwTryAdmit(lims[1], now)
       IN  /\ FwGhost(lims[1], r)
           /\ IF r.ok
              THEN /\ lims' = [lims EXCEPT ![1] = r.lim]
                   /\ pc' = [pc EXCEPT ![p] = "idle"]
              ELSE /\ lims' = [lims EXCEPT ![1] = [r.lim EXCEPT !.mu = p]]
                   /\ pc' = [pc EXCEPT ![p] = "locked"]
    /\ UNCHANGED <<now, wake, gLog, outsidePrimitives>>

\* fw.Wait(ctx) is called
FwWaitCall(p) ==
    /\ pc[p] = "idle"
    /\ gCalls < MaxCalls
    /\ FwWaitCheck(p)
    /\ gWaits' = gWaits + 1

\* waitTime := window - time.Since(windowStart), read under the mutex at a
\* clock reading of its own; unlock; floor at zero; start time.After(waitTime)
FwWaitSleep(p) ==
    /\ pc[p] = "locked"
    /\ lims' = [lims EXCEPT ![1] = [lims[1] EXCEPT !.mu = 0]]
    /\ wake' = [wake EXCEPT ![p] = now + FwWaitTime(lims[1], now)]
    /\ pc' = [pc EXCEPT ![p] = "sleep"]
    /\ UNCHANGED <<now, ghostVars, outsidePrimitives>>

\* time.After has fired: loop back and check again
FwWaitRecheck(p) ==
    /\ pc[p] = "sleep"
    /\ now >= wake[p]
    /\ FwWaitCheck(p)
    /\ UNCHANGED gWaits

NextFW ==
    \/ Tick
    \/ \E p \in Procs : FwAllowCall(p)
    \/ \E p \in Procs : FwWaitCall(p)
    \/ \E p \in Procs : FwWaitSleep(p)
    \/ \E p \in Procs : FwWaitRecheck(p)

SpecFixedWindow == InitFW /\ [][NextFW]_vars

----------------------------------------------------------------------------
(* Claims about the fixed window (SpecFixedWindow). *)

\* what one step does to the window, seen from outside
FwStepRule ==
    LET l == lims[1]
        m == lims'[1]
        attempt == gCalls' # gCalls
        expired == now - l.windowStart >= l.window
    IN  /\ (attempt /\ expired) =>
              /\ m.windowStart = now
              /\ m.count = (IF m.limit >= 1 THEN 1 ELSE 0)
        /\ (attempt /\ ~expired) =>
              /\ m.windowStart = l.windowStart
              /\ m.count >= l.count
        /\ ~attempt => (m.windowStart = l.windowStart /\ m.count = l.count)

\* C7: within one window the first L attempts are admitted and every further
\* one is denied (admissions since the last reset = min(L, attempts since the
\* last reset)); the first call made when at least W has elapsed since the
\* window start resets the count to 0 and restarts the window at that moment
\* (so L more are admitted), and a call made before W has elapsed never resets.
C7_WindowAdmitsAndResets ==
    [][ /\ FwStepRule
        /\ gWinAdmits' = Min(lims'[1].limit, gWinCalls') ]_vars

\* C7 witness: after a reset, L more calls were admitted and the next denied.
C7_Witness ==
    /\ lims[1].limit >= 1
    /\ lims[1].window = WindowTicks
    /\ gWaits = 0
    /\ gResets >= 1
    /\ lims[1].windowStart > 0
    /\ gWinAdmits = lims[1].limit
    /\ gWinCalls = lims[1].limit + 1

\* C8: under any interleaving of goroutines calling Allow and Wait,
\* 0 <= count <= limit, and the admissions granted since the last window
\* reset never exceed limit and are exactly the count (no update is lost, no
\* slot is granted twice).
C8_CountWithinLimit ==
    /\ 0 <= lims[1].count
    /\ lims[1].count <= lims[1].limit
    /\ gWinAdmits <= lims[1].limit
    /\ gWinAdmits = lims[1].count

\* C8 witness: the window is full, a Wait caller sleeps for the next window
\* while another goroutine has been admitted by Wait in this window.
C8_Witness ==
    /\ lims[1].limit >= 1
    /\ lims[1].count = lims[1].limit
    /\ gWaits >= 2
    /\ gResets >= 1
    /\ \E p \in Procs : pc[p] = "sleep" /\ wake[p] > now

----------------------------------------------------------------------------
(* The scoping layer (ratelimit_scope.go): PerHostRateLimiter keeps one     *)
(* limiter per host in a sync.Map; ScopedRateLimiter routes a call to the   *)
(* client's limiter or to the host's.                                       *)

\* sync.Map.Load(host): the stored limiter, 0 when there is none
SyncMapLoadAnyHost(m, host) ==
    IF \E h \in Hosts : m[h] # 0 THEN m[CHOOSE h \in Hosts : m[h] # 0] ELSE 0

SyncMapLoad(m, host) == m[host]

\* sync.Map.LoadOrStore(host, new): the limiter retained for host and the map after
SyncMapLoadOrStoreOverwrite(m, host, new) ==
    [actual |-> new, map |-> [m EXCEPT ![host] = new]]

SyncMapLoadOrStore(m, host, new) ==
    IF m[host] # 0
    THEN [actual |-> m[host], map |-> m]
    ELSE [actual |-> new, map |-> [m EXCEPT ![host] = new]]

\* p.factory(): a factory that builds a fresh token bucket on every call
\* (TokenBucketRateLimit's closure), or the closure of CustomRateLimit, which
\* returns the one limiter it was given (f.limiter) on every call; the heap
\* after the call and the identity of the limiter returned
FactoryCall(f, ls) ==
    LET free == {i \in 1..Len(ls) : ls[i] = Freed}
        id == IF free = {} THEN Len(ls) + 1 ELSE CHOOSE i \in free : \A j \in free : i <= j
        new == NewTokenBucketRateLimiter(f.burst)
    IN  IF f.kind = "custom" THEN [lims |-> ls, id |-> f.limiter]
        ELSE [lims |-> IF id > Len(ls) THEN Append(ls, new) ELSE [ls EXCEPT ![id] = new],
              id |-> id]

InitHost ==
    /\ InitCommon
    /\ InitNoClient
    /\ \E b \in 1..MaxBurst :
          /\ factory = [kind |-> "fresh", burst |-> b]
          /\ gShadow = [h \in Hosts |-> NewTokenBucketRateLimiter(b)]
    /\ scope = "host"
    /\ lims = <<>>

\* PerHostRateLimiter.Allow/Wait(ctx, host) is called (through
\* ScopedRateLimiter with scope Host, or directly): getLimiterForHost starts
\* with limiters.Load(host); on a miss it builds a new limiter with the factory.
\* Goroutines are anonymous: a new call is run by the least idle one.
HostLoad(p, h, k) ==
    /\ pc[p] = "idle"
    /\ \A q \in Procs : q < p => pc[q] # "idle"
    /\ gCalls < HostMaxCalls
    /\ scope = "host"
    /\ LET found == SyncMapLoad(hostMap, h)
       IN  IF found # 0
           THEN /\ loc' = [loc EXCEPT ![p] = [NoLoc EXCEPT !.host = h, !.kind = k, !.lim = found]]
                /\ pc' = [pc EXCEPT ![p] = "use"]
                /\ UNCHANGED lims
           ELSE LET f == FactoryCall(factory, lims)
                IN  /\ lims' = f.lims
                    /\ loc' = [loc EXCEPT ![p] = [NoLoc EXCEPT !.host = h, !.kind = k, !.fresh = f.id]]
                    /\ pc' = [pc EXCEPT ![p] = "store"]
    /\ gCalls' = gCalls + 1
    /\ UNCHANGED <<now, wake, gAdmits, scope, clientLimit, hostMap, factory,
                   gShadow, gHostAdmits, gAgree, gDiscarded, outsideHost>>

\* getLimiterForHost after a miss: limiters.LoadOrStore(host, newLimiter)
HostLoadOrStore(p) ==
    /\ pc[p] = "store"
    /\ LET r == SyncMapLoadOrStore(hostMap, loc[p].host, loc[p].fresh)
           lost == r.actual # loc[p].fresh
       IN  /\ hostMap' = r.map
           /\ loc' = [loc EXCEPT ![p].lim = r.actual, ![p].fresh = 0, ![p].lost = lost]
           /\ gDiscarded' = (IF lost THEN lims[loc[p].fresh] ELSE gDiscarded)
           /\ lims' = IF lost THEN [lims EXCEPT ![loc[p].fresh] = Freed] ELSE lims
    /\ pc' = [pc EXCEPT ![p] = "use"]
    /\ UNCHANGED <<now, wake, gCalls, gAdmits, scope, clientLimit, factory,
                   gShadow, gHostAdmits, gAgree, outsideHost>>

\* limiter.Allow(ctx) / limiter.Wait(ctx) on the limiter the lookup returned
LimiterUse(p) ==
    /\ pc[p] = "use"
    /\ LET h == loc[p].host
           i == loc[p].lim
           r == IF loc[p].kind = "Allow" THEN TBAllow(lims[i], now)
                                         ELSE TBWaitReserve(lims[i], now)
           sr == IF loc[p].kind = "Allow" THEN TBAllow(gShadow[h], now)
                                          ELSE TBWaitReserve(gShadow[h], now)
           sleeps == loc[p].kind = "Wait" /\ r.ok /\ r.timeToAct > now
           a == IF r.ok /\ ~sleeps THEN 1 ELSE 0
       IN  /\ lims' = [lims EXCEPT ![i] = r.lim]
           /\ gShadow' = [gShadow EXCEPT ![h] = sr.lim]
           /\ gAgree' = (gAgree /\ r.ok = sr.ok /\ r.timeToAct = sr.timeToAct)
           /\ gHostAdmits' = [gHostAdmits EXCEPT ![h] = @ + a]
           /\ IF sleeps
              THEN /\ pc' = [pc EXCEPT ![p] = "sleep"]
                   /\ wake' = [wake EXCEPT ![p] = r.timeToAct]
                   /\ UNCHANGED loc
              ELSE /\ pc' = [pc EXCEPT ![p] = "idle"]
                   /\ loc' = [loc EXCEPT ![p] = NoLoc]
                   /\ UNCHANGED wake
    /\ UNCHANGED <<now, gCalls, gAdmits, scope, clientLimit, hostMap, factory, gDiscarded, outsideHost>>

\* the timer of a sleeping limiter.Wait has fired: Wait returns nil
LimiterWaitDone(p) ==
    /\ pc[p] = "sleep"
    /\ now >= wake[p]
    /\ gHostAdmits' = [gHostAdmits EXCEPT ![loc[p].host] = @ + 1]
    /\ pc' = [pc EXCEPT ![p] = "idle"]
    /\ loc' = [loc EXCEPT ![p] = NoLoc]
    /\ wake' = [wake EXCEPT ![p] = 0]
    /\ UNCHANGED <<now, lims, gCalls, gAdmits, scope, clientLimit, hostMap, factory,
                   gShadow, gAgree, gDiscarded, outsideHost>>

\* the clock advances by one tick (bounded by HostTicks)
TickHost ==
    /\ now < HostTicks
    /\ now' = now + 1
    /\ UNCHANGED <<limVars, procVars, ghostVars, hostVars, adVars, clVars>>

NextHost ==
    \/ TickHost
    \/ \E p \in Procs, h \in Hosts, k \in {"Allow", "Wait"} : HostLoad(p, h, k)
    \/ \E p \in Procs : HostLoadOrStore(p)
    \/ \E p \in Procs : LimiterUse(p)
    \/ \E p \in Procs : LimiterWaitDone(p)

SpecHost == InitHost /\ [][NextHost]_vars

----------------------------------------------------------------------------
(* Claims about the host-scoped limiter (SpecHost). *)

\* C5: with a factory that returns a fresh limiter per call, every call for a
\* host gets the result that a stand-alone limiter fed only that host's calls
\* gives, and leaves the host's limiter in that stand-alone limiter's state:
\* calls for host A change nothing for host B, and the calls for one host
\* share one budget.
C5_HostsIndependent ==
    (scope = "host" /\ factory.kind = "fresh") =>
        /\ gAgree
        /\ \A h \in Hosts : hostMap[h] # 0 => lims[hostMap[h]] = gShadow[h]
        /\ \A h \in Hosts : hostMap[h] = 0 => gShadow[h] = NewTokenBucketRateLimiter(factory.burst)

\* C5 witness: with no time elapsed, host a has used up its burst and was
\* denied once, and host b was admitted all the same.
C5_Witness ==
    /\ scope = "host" /\ now = 0
    /\ hostMap["a"] # 0 /\ hostMap["b"] # 0
    /\ gHostAdmits["a"] = factory.burst
    /\ TBAdvance(lims[hostMap["a"]], now) < TokenUnit
    /\ gCalls = factory.burst + 2
    /\ gHostAdmits["b"] = 1

\* the limiter a goroutine is about to use, or sleeps on, is its host's retained one
UsesRetained(p) ==
    pc[p] \in {"use", "sleep"} =>
        (loc[p].lim # 0 /\ loc[p].lim = hostMap[loc[p].host])

\* C10: under any interleaving of concurrent first-time calls for a host, the
\* map never replaces the limiter it retained for the host, every call uses
\* that retained limiter, a racing loser's instance is dropped in the state
\* the factory built it in (unused), and the host's admissions never exceed
\* one limiter's budget (burst plus the refill so far).
C10_OneLimiterPerHost ==
    [][ /\ \A h \in Hosts : hostMap[h] # 0 => hostMap'[h] = hostMap[h]
        /\ \A p \in Procs : UsesRetained(p)'
        /\ gDiscarded' \in {Freed, NewTokenBucketRateLimiter(factory.burst)}
        /\ \A h \in Hosts :
               gHostAdmits'[h] * TokenUnit <= factory.burst * TokenUnit + now' ]_vars

\* C10 witness: two goroutines raced on the first access of one host; the
\* loser dropped its instance and both use the winner's, which has granted
\* the whole burst and no more.
C10_Witness ==
    \E p, q \in Procs :
        /\ p # q
        /\ loc[p].host = loc[q].host /\ loc[p].host # ""
        /\ loc[p].lost /\ ~loc[q].lost
        /\ pc[p] = "use" /\ pc[q] = "use"
        /\ loc[p].lim = loc[q].lim
        /\ gDiscarded # Freed

----------------------------------------------------------------------------
(* Specification SpecAdaptive: one goroutine calls Allow and Wait on an     *)
(* AdaptiveRateLimiter whose base is the token bucket lims[1], while        *)
(* responses are observed concurrently and the clock advances.  (Contention *)
(* among the callers of one token bucket is SpecTokenBucket's subject.)     *)
(* Contexts never end.                                                      *)

AdCallers == {CHOOSE p \in Procs : TRUE}

AdMaxOps == 3           \* Allow, Wait and ObserveResponse calls made, all told
AdTicks == SecondTicks + 1  \* how far the clock runs: one second and a tick

\* the clock advances by one tick (bounded by AdTicks)
TickAdaptive ==
    /\ now < AdTicks
    /\ now' = now + 1
    /\ UNCHANGED <<limVars, procVars, ghostVars, hostVars, adVars, clVars>>

\* the Retry-After values a response may carry
RetryAfterValues ==
    {<<>>, <<"1">>, <<"+", "1">>, <<"-", "1">>, <<"4">>, <<"9">>, <<"9", "9">>,
     <<"x">>, <<"D", "1">>}

\* the responses observed: 429s that carry Retry-After alone, responses of
\* either status that combine the reset and remaining headers, responses that
\* carry limit headers, and one 429 with Retry-After next to an exhausted quota
Responses ==
    {Response(StatusTooManyRequests, ra, <<>>, <<>>, <<>>, <<>>, <<>>) : ra \in RetryAfterValues}
    \cup {Response(st, <<>>, xr, r, <<>>, <<>>, rem) :
            st \in {200, StatusTooManyRequests},
            xr \in {<<>>, <<"1">>, <<"x">>}, r \in {<<>>, <<"2">>},
            rem \in {<<>>, <<"0">>, <<"3">>}}
    \cup {Response(StatusTooManyRequests, <<"x">>, xr, r, <<>>, <<>>, <<>>) :
            xr \in {<<>>, <<"1">>}, r \in {<<>>, <<"2">>}}
    \cup {Response(200, <<>>, <<>>, <<>>, xl, l, <<>>) :
            xl \in {<<>>, <<"5">>, <<"x">>}, l \in {<<>>, <<"7">>}}
    \cup {Response(StatusTooManyRequests, <<"2">>, <<"1">>, <<>>, <<>>, <<>>, <<"0">>)}

\* a 429 whose Retry-After parses as an integer and which carries no other
\* rate-limit header
IsRetryAfterOnly(resp) ==
    /\ resp.status = StatusTooManyRequests
    /\ Atoi(resp.retryAfter).ok
    /\ resp.xReset = <<>> /\ resp.reset = <<>> /\ resp.xLimit = <<>>
    /\ resp.limit = <<>> /\ resp.xRemaining = <<>>

InitAdaptive ==
    /\ InitCommon
    /\ InitNoScope
    /\ InitNoClient
    /\ \E b \in 0..MaxBurst : lims = <<NewTokenBucketRateLimiter(b)>>

\* a.ObserveResponse(resp), atomic under the write lock
AdObserve(resp) ==
    /\ gCalls + gObsCount < AdMaxOps
    /\ ad' = ObserveResponse(ad, resp, now)
    /\ gObsCount' = gObsCount + 1
    /\ gObs' = IF resp = NilResponse THEN gObs
               ELSE IF IsRetryAfterOnly(resp)
               THEN [t |-> now, shape |-> "retryAfterInt", n |-> Atoi(resp.retryAfter).val]
               ELSE [t |-> now, shape |-> "other", n |-> 0]
    /\ UNCHANGED <<now, limVars, procVars, gCalls, gAdmits, adLoc, ret, outsideAdaptive>>

\* a.Allow(ctx), first half: read backoffUntil under the read lock
AdAllowRead(p) ==
    /\ pc[p] = "idle"
    /\ gCalls + gObsCount < AdMaxOps
    /\ gCalls' = gCalls + 1
    /\ adLoc' = [adLoc EXCEPT ![p] = [backoffUntil |-> ad.backoffUntil, seen |-> gObsCount]]
    /\ ret' = [ret EXCEPT ![p] = "none"]
    /\ pc' = [pc EXCEPT ![p] = "adAllow"]
    /\ UNCHANGED <<now, limVars, wake, gAdmits, ad, gObs, gObsCount, outsideAdaptive>>

\* a.Allow(ctx), second half: false during the backoff read, else base.Allow
AdAllowDecide(p) ==
    /\ pc[p] = "adAllow"
    /\ IF InBackoff(adLoc[p].backoffUntil, now)
       THEN /\ ret' = [ret EXCEPT ![p] = "false"]
            /\ UNCHANGED <<lims, gAdmits>>
       ELSE LET r == TBAllow(lims[1], now)
            IN  /\ lims' = [lims EXCEPT ![1] = r.lim]
                /\ ret' = [ret EXCEPT ![p] = IF r.ok THEN "true" ELSE "false"]
                /\ gAdmits' = gAdmits + (IF r.ok THEN 1 ELSE 0)
    /\ pc' = [pc EXCEPT ![p] = "idle"]
    /\ adLoc' = [adLoc EXCEPT ![p] = NoAdLoc]
    /\ UNCHANGED <<now, wake, gCalls, ad, gObs, gObsCount, outsideAdaptive>>

\* a.Wait(ctx): read backoffUntil; during a backoff sleep until it has
\* passed (time.After(time.Until(backoffUntil))), else go on to base.Wait
AdWaitRead(p) ==
    /\ pc[p] = "idle"
    /\ gCalls + gObsCount < AdMaxOps
    /\ gCalls' = gCalls + 1
    /\ adLoc' = [adLoc EXCEPT ![p] = [backoffUntil |-> ad.backoffUntil, seen |-> gObsCount]]
    /\ ret' = [ret EXCEPT ![p] = "none"]
    /\ IF InBackoff(ad.backoffUntil, now)
       THEN /\ pc' = [pc EXCEPT ![p] = "adSleep"]
            /\ wake' = [wake EXCEPT ![p] = ad.backoffUntil]
       ELSE /\ pc' = [pc EXCEPT ![p] = "adBase"]
            /\ UNCHANGED wake
    /\ UNCHANGED <<now, limVars, gAdmits, ad, gObs, gObsCount, outsideAdaptive>>

\* the backoff timer of a sleeping Wait has fired
AdWaitWake(p) ==
    /\ pc[p] = "adSleep"
    /\ now >= wake[p]
    /\ pc' = [pc EXCEPT ![p] = "adBase"]
    /\ wake' = [wake EXCEPT ![p] = 0]
    /\ UNCHANGED <<now, limVars, gCalls, gAdmits, adVars, outsideAdaptive>>

\* a.base.Wait(ctx): reserve a token; nil at once, an error when the burst
\* is below 1, else sleep until the reservation's timeToAct
AdWaitBase(p) ==
    /\ pc[p] = "adBase"
    /\ LET r == TBWaitReserve(lims[1], now)
       IN  /\ lims' = [lims EXCEPT ![1] = r.lim]
           /\ IF r.ok /\ r.timeToAct > now
              THEN /\ pc' = [pc EXCEPT ![p] = "sleep"]
                   /\ wake' = [wake EXCEPT ![p] = r.timeToAct]
                   /\ UNCHANGED <<ret, gAdmits>>
              ELSE /\ pc' = [pc EXCEPT ![p] = "idle"]
                   /\ ret' = [ret EXCEPT ![p] = IF r.ok THEN "nil" ELSE "error"]
                   /\ gAdmits' = gAdmits + (IF r.ok THEN 1 ELSE 0)
                   /\ UNCHANGED wake
    /\ adLoc' = [adLoc EXCEPT ![p] = NoAdLoc]
    /\ UNCHANGED <<now, gCalls, ad, gObs, gObsCount, outsideAdaptive>>

\* the reservation's timer has fired: Wait returns nil
AdWaitDone(p) ==
    /\ pc[p] = "sleep"
    /\ now >= wake[p]
    /\ pc' = [pc EXCEPT ![p] = "idle"]
    /\ ret' = [ret EXCEPT ![p] = "nil"]
    /\ wake' = [wake EXCEPT ![p] = 0]
    /\ gAdmits' = gAdmits + 1
    /\ UNCHANGED <<now, limVars, gCalls, ad, adLoc, gObs, gObsCount, outsideAdaptive>>

NextAdaptive ==
    \/ TickAdaptive
    \/ \E resp \in Responses \cup {NilResponse} : AdObserve(resp)
    \/ \E p \in AdCallers : AdAllowRead(p)
    \/ \E p \in AdCallers : AdAllowDecide(p)
    \/ \E p \in AdCallers : AdWaitRead(p)
    \/ \E p \in AdCallers : AdWaitWake(p)
    \/ \E p \in AdCallers : AdWaitBase(p)
    \/ \E p \in AdCallers : AdWaitDone(p)

SpecAdaptive == InitAdaptive /\ [][NextAdaptive]_vars

----------------------------------------------------------------------------
(* Claims about the adaptive limiter (SpecAdaptive). *)

\* an Allow call of p returns in this step, it started after the most recent
\* observation, and that observation was a 429 with only Retry-After: N
AllowAfterRetryAfter(p) ==
    /\ pc[p] = "adAllow" /\ pc'[p] = "idle"
    /\ adLoc[p].seen = gObsCount
    /\ gObs.shape = "retryAfterInt"

\* what the claim prescribes for that call: false before t + N seconds,
\* from then on the base limiter's own answer
AllowFollowsRetryAfter(p) ==
    LET base == TBAllow(lims[1], now)
    IN  IF now < gObs.t + gObs.n * SecondTicks
        THEN ret'[p] = "false" /\ lims' = lims
        ELSE /\ ret'[p] = (IF base.ok THEN "true" ELSE "false")
             /\ lims' = [lims EXCEPT ![1] = base.lim]

\* C4: after ObserveResponse, at time t, of a 429 whose only rate-limit
\* header is Retry-After: N (an integer), Allow returns false at every time
\* before t + N seconds whatever the base limiter would answer, and from
\* t + N seconds on exactly what the base limiter's Allow returns.
C4_RetryAfterGatesAllow ==
    [][\A p \in AdCallers : AllowAfterRetryAfter(p) => AllowFollowsRetryAfter(p)]_vars

\* C4 restricted to the N whose duration N * time.Second fits the Duration
\* range: there the code does what the claim says.
C4_WithinDurationRange ==
    [][\A p \in AdCallers :
        (AllowAfterRetryAfter(p) /\ gObs.n * SecondTicks <= MaxInt)
            => AllowFollowsRetryAfter(p)]_vars

\* C4 witness: Retry-After: 1 was observed at t while the base had a token;
\* the Allow made before t + 1 s returned false (it is the one call of two
\* that admitted nothing) and the Allow made at t + 1 s returned true.
C4_Witness ==
    /\ gObs.shape = "retryAfterInt" /\ gObs.n = 1
    /\ gObsCount = 1
    /\ now = gObs.t + SecondTicks
    /\ \A p \in AdCallers : pc[p] = "idle" /\ ret[p] = "true"
    /\ gCalls = 2 /\ gAdmits = 1

----------------------------------------------------------------------------
(* Specification SpecObserve: responses carrying every combination of the   *)
(* rate-limit headers are observed by an AdaptiveRateLimiter over the token *)
(* bucket lims[1], one observation after the other as the write lock orders *)
(* them, while one goroutine calls Allow and the clock advances.            *)

\* every combination of a status, a Retry-After (absent, seconds, a date,
\* unparseable), an X-RateLimit-Reset (absent, a near instant, the largest
\* timestamp, unparseable), a RateLimit-Reset and an X-RateLimit-Remaining
\* (absent, zero, non-zero, unparseable)
ObsResponses ==
    {Response(st, ra, xr, r, <<>>, <<>>, rem) :
        st \in {200, StatusTooManyRequests},
        ra \in {<<>>, <<"2">>, <<"D", "1">>, <<"x">>},
        xr \in {<<>>, <<"1">>, <<"7">>, <<"x">>},
        r \in {<<>>, <<"3">>},
        rem \in {<<>>, <<"0">>, <<"3">>, <<"x">>}}

ObsMaxOps == 2          \* ObserveResponse and Allow calls made, all told

\* X-RateLimit-Remaining is 0 and X-RateLimit-Reset parses as a timestamp
Exhausted(resp) ==
    /\ resp.xRemaining # <<>>
    /\ Atoi(resp.xRemaining).ok /\ Atoi(resp.xRemaining).val = 0
    /\ resp.xReset # <<>> /\ ParseInt64(resp.xReset).ok

\* this step is an observation
Observes == gObsCount' = gObsCount + 1

\* a.ObserveResponse(resp), atomic under the write lock; gObs keeps the
\* response, the instant of the observation, the backoffUntil it found, and
\* the timestamp of an exhausted quota
ObsObserve(resp) ==
    /\ gCalls + gObsCount < ObsMaxOps
    /\ ad' = ObserveResponse(ad, resp, now)
    /\ gObsCount' = gObsCount + 1
    /\ gObs' = [t |-> now, prev |-> ad.backoffUntil, resp |-> resp,
                shape |-> IF Exhausted(resp) THEN "exhausted" ELSE "other",
                n |-> IF Exhausted(resp) THEN ParseInt64(resp.xReset).val ELSE 0]
    /\ UNCHANGED <<now, limVars, procVars, gCalls, gAdmits, adLoc, ret, outsideAdaptive>>

NextObserve ==
    \/ TickAdaptive
    \/ \E resp \in ObsResponses : ObsObserve(resp)
    \/ \E p \in AdCallers : gCalls + gObsCount < ObsMaxOps /\ AdAllowRead(p)
    \/ \E p \in AdCallers : AdAllowDecide(p)

SpecObserve == InitAdaptive /\ [][NextObserve]_vars

----------------------------------------------------------------------------
(* Claims about the observation of responses (SpecObserve). *)

\* the instant the five rules name for a 429 observed at t, the first
\* applicable rule only
FirstRuleInstant(resp, t) ==
    LET seconds == Atoi(resp.retryAfter)
        date == ParseTime(resp.retryAfter)
        xr == ParseInt64(resp.xReset)
        r == ParseInt64(resp.reset)
    IN  IF resp.retryAfter # <<>> /\ seconds.ok THEN t + seconds.val * SecondTicks
        ELSE IF resp.retryAfter # <<>> /\ date.ok THEN date.t
        ELSE IF resp.xReset # <<>> /\ xr.ok THEN TimeUnixNoWrap(xr.val)
        ELSE IF resp.reset # <<>> /\ r.ok THEN TimeUnixNoWrap(r.val)
        ELSE t + DefaultBackoffSeconds * SecondTicks

\* the timestamp is one whose instant time.Unix represents without wrapping
FitsTime(timestamp) == timestamp + UnixToInternal <= MaxInt

\* every number the first applicable rule of a 429 computes with is in range
FirstRuleFits(resp) ==
    LET seconds == Atoi(resp.retryAfter)
        date == ParseTime(resp.retryAfter)
        xr == ParseInt64(resp.xReset)
        r == ParseInt64(resp.reset)
    IN  IF resp.retryAfter # <<>> /\ seconds.ok
        THEN seconds.val * SecondTicks \in MinInt..MaxInt
        ELSE IF resp.retryAfter # <<>> /\ date.ok THEN TRUE
        ELSE IF resp.xReset # <<>> /\ xr.ok THEN FitsTime(xr.val)
        ELSE IF resp.reset # <<>> /\ r.ok THEN FitsTime(r.val)
        ELSE TRUE

\* C12: after ObserveResponse of a 429, backoffUntil is the instant given by
\* the first applicable of the five rules and by that rule only, whatever
\* other rate-limit headers the response carries.
C12_FirstRuleOnly ==
    [][(Observes /\ gObs'.resp.status = StatusTooManyRequests)
            => ad'.backoffUntil = FirstRuleInstant(gObs'.resp, now)]_vars

\* C12 for the 429s that do not carry an exhausted quota and whose numbers
\* are in range: there the first applicable rule alone gives backoffUntil.
C12_UnlessExhaustedOrWrapped ==
    [][( /\ Observes /\ gObs'.resp.status = StatusTooManyRequests
         /\ ~Exhausted(gObs'.resp) /\ FirstRuleFits(gObs'.resp) )
            => ad'.backoffUntil = FirstRuleInstant(gObs'.resp, now)]_vars

\* C12 witness: a 429 with Retry-After: 2 and no exhausted quota was observed
\* at instant 0 over a backoff set before, and backoffUntil is 2 s.
C12_Witness ==
    /\ gObsCount = 2 /\ gObs.t = 0 /\ gObs.shape = "other"
    /\ gObs.prev = TimeUnixNoWrap(1)
    /\ ad.backoffUntil = 2 * SecondTicks

\* the most recent observation was of a response with an exhausted quota, and
\* the Allow call of p that returns in this step started after it
AllowAfterExhausted(p) ==
    /\ pc[p] = "adAllow" /\ pc'[p] = "idle"
    /\ gObsCount > 0
    /\ adLoc[p].seen = gObsCount
    /\ gObs.shape = "exhausted"

\* what the remaining/reset rule is said to do in an observation of resp:
\* with an exhausted quota backoffUntil is the reset instant, otherwise the
\* rule changes nothing (backoffUntil is what handle429Response left, or
\* what it was before)
ExhaustedRule(resp) ==
    IF Exhausted(resp)
    THEN ad'.backoffUntil = TimeUnixNoWrap(ParseInt64(resp.xReset).val)
    ELSE ad'.backoffUntil =
            (IF resp.status = StatusTooManyRequests
             THEN Handle429Response(ad, resp, now).backoffUntil
             ELSE ad.backoffUntil)

\* C13: for a response of any status with X-RateLimit-Remaining = 0 and an
\* X-RateLimit-Reset that parses as a Unix timestamp, ObserveResponse sets
\* backoffUntil to that reset instant, so that Allow returns false until
\* then; with Remaining absent, unparseable or non-zero, or Reset absent or
\* unparseable, the rule changes nothing.
C13_ExhaustedQuotaBacksOff ==
    [][ /\ Observes => ExhaustedRule(gObs'.resp)
        /\ \A p \in AdCallers :
              (AllowAfterExhausted(p) /\ now < TimeUnixNoWrap(gObs.n))
                  => ret'[p] = "false" /\ lims' = lims ]_vars

\* C13 for the reset timestamps whose instant time.Unix represents without
\* wrapping: there the code does what the claim says.
C13_WithinTimeRange ==
    [][ /\ (Observes /\ (Exhausted(gObs'.resp) => FitsTime(gObs'.n)))
            => ExhaustedRule(gObs'.resp)
        /\ \A p \in AdCallers :
              (AllowAfterExhausted(p) /\ FitsTime(gObs.n) /\ now < TimeUnixNoWrap(gObs.n))
                  => ret'[p] = "false" /\ lims' = lims ]_vars

\* C13 witness: a 200 response with Remaining 0 and Reset 1 was observed
\* before second 1 over a bucket holding a token, and the Allow made after
\* it, still before second 1, returned false and took no token.
C13_Witness ==
    /\ gObsCount = 1 /\ gObs.shape = "exhausted" /\ gObs.n = 1
    /\ gObs.resp.status = 200
    /\ now < TimeUnixNoWrap(1)
    /\ lims[1].burst >= 1 /\ lims[1] = NewTokenBucketRateLimiter(lims[1].burst)
    /\ gCalls = 1
    /\ \A p \in AdCallers : pc[p] = "idle" /\ ret[p] = "false"

----------------------------------------------------------------------------
(* Specification SpecApply: NumProcs goroutines run the rate-limit           *)
(* middleware of a strategy built with behavior Error, client scope and      *)
(* adaptive on (the scoped limiter's clientLimit is the adaptive limiter     *)
(* `ad` over the token bucket lims[1]) and call Allow on the adaptive        *)
(* limiter, while responses are observed and the clock advances.             *)

\* the responses observed: 429s with Retry-After: 1 and : 2, a response with
\* an exhausted quota that resets at second 1, and one without headers
ApplyResponses ==
    {Response(StatusTooManyRequests, <<"1">>, <<>>, <<>>, <<>>, <<>>, <<>>),
     Response(StatusTooManyRequests, <<"2">>, <<>>, <<>>, <<>>, <<>>, <<>>),
     Response(200, <<>>, <<"1">>, <<>>, <<>>, <<>>, <<"0">>),
     Response(200, <<>>, <<>>, <<>>, <<>>, <<>>, <<>>)}

\* the outside set without the count of requests that reached the server
outsideStrategy ==
    <<gWaits, gLog, winGhost, hostVars, cfg, srv, call, ctxDone, result,
      gIdleClosed, gClCalls, gLastSent, gPlain>>

\* strategy.Apply(ctx, host) of a strategy built with behavior Error, client
\* scope and adaptive on, called by the middleware: the first probe,
\* s.adaptive.Allow(ctx), reads backoffUntil
AdApplyRead(p) ==
    /\ pc[p] = "idle"
    /\ gCalls + gObsCount < AdMaxOps
    /\ gCalls' = gCalls + 1
    /\ adLoc' = [adLoc EXCEPT ![p] = [backoffUntil |-> ad.backoffUntil, seen |-> gObsCount]]
    /\ ret' = [ret EXCEPT ![p] = "none"]
    /\ pc' = [pc EXCEPT ![p] = "apFirst"]
    /\ UNCHANGED <<now, limVars, wake, gAdmits, ad, gObs, gObsCount, outsideAdaptive>>

\* the first probe decides: not allowed, Apply returns ErrRateLimitExceeded
\* and the middleware returns it without calling next.RoundTrip
AdApplyFirst(p) ==
    /\ pc[p] = "apFirst"
    /\ IF InBackoff(adLoc[p].backoffUntil, now)
       THEN /\ ret' = [ret EXCEPT ![p] = ErrRateLimitExceeded]
            /\ pc' = [pc EXCEPT ![p] = "idle"]
            /\ UNCHANGED <<lims, gAdmits>>
       ELSE LET r == TBAllow(lims[1], now)
            IN  /\ lims' = [lims EXCEPT ![1] = r.lim]
                /\ gAdmits' = gAdmits + (IF r.ok THEN 1 ELSE 0)
                /\ ret' = [ret EXCEPT ![p] = IF r.ok THEN "none" ELSE ErrRateLimitExceeded]
                /\ pc' = [pc EXCEPT ![p] = IF r.ok THEN "apSecondRead" ELSE "idle"]
    /\ adLoc' = [adLoc EXCEPT ![p] = NoAdLoc]
    /\ UNCHANGED <<now, wake, gCalls, ad, gObs, gObsCount, outsideAdaptive>>

\* the second probe, s.limiter.Allow(ctx, host): with client scope the
\* clientLimit is the adaptive limiter itself, whose Allow reads backoffUntil
AdApplySecondRead(p) ==
    /\ pc[p] = "apSecondRead"
    /\ adLoc' = [adLoc EXCEPT ![p] = [backoffUntil |-> ad.backoffUntil, seen |-> gObsCount]]
    /\ pc' = [pc EXCEPT ![p] = "apSecond"]
    /\ UNCHANGED <<now, limVars, wake, gCalls, gAdmits, ad, ret, gObs, gObsCount,
                   outsideAdaptive>>

\* the second probe decides: not allowed, ErrRateLimitExceeded; allowed,
\* Apply returns nil and the middleware hands the request to next.RoundTrip
AdApplySecond(p) ==
    /\ pc[p] = "apSecond"
    /\ IF InBackoff(adLoc[p].backoffUntil, now)
       THEN /\ ret' = [ret EXCEPT ![p] = ErrRateLimitExceeded]
            /\ UNCHANGED <<lims, gAdmits, gServerSeen>>
       ELSE LET r == TBAllow(lims[1], now)
            IN  /\ lims' = [lims EXCEPT ![1] = r.lim]
                /\ gAdmits' = gAdmits + (IF r.ok THEN 1 ELSE 0)
                /\ ret' = [ret EXCEPT ![p] = IF r.ok THEN "nil" ELSE ErrRateLimitExceeded]
                /\ gServerSeen' = gServerSeen + (IF r.ok THEN 1 ELSE 0)
    /\ pc' = [pc EXCEPT ![p] = "idle"]
    /\ adLoc' = [adLoc EXCEPT ![p] = NoAdLoc]
    /\ UNCHANGED <<now, wake, gCalls, ad, gObs, gObsCount, outsideStrategy>>

\* goroutines are anonymous: a new call is run by the least idle one
LeastIdle(p) == \A q \in Procs : q < p => pc[q] # "idle"

NextApply ==
    \/ TickAdaptive
    \/ \E resp \in ApplyResponses : AdObserve(resp)
    \/ \E p \in Procs : LeastIdle(p) /\ AdAllowRead(p)
    \/ \E p \in Procs : AdAllowDecide(p)
    \/ \E p \in Procs : LeastIdle(p) /\ AdApplyRead(p)
    \/ \E p \in Procs : AdApplyFirst(p)
    \/ \E p \in Procs : AdApplySecondRead(p)
    \/ \E p \in Procs : AdApplySecond(p)

SpecApply == InitAdaptive /\ [][NextApply]_vars

----------------------------------------------------------------------------
(* Claims about the adaptive gate (SpecApply). *)

\* a probe of p (an Allow call, or one of the two probes of Apply) decides in
\* this step, it read backoffUntil after the most recent observation, and
\* that backoff is active now
ProbeInBackoff(p) ==
    /\ pc[p] \in {"adAllow", "apFirst", "apSecond"}
    /\ pc'[p] # pc[p]
    /\ adLoc[p].seen = gObsCount
    /\ now < ad.backoffUntil

Qualifies(resp) == resp.status = StatusTooManyRequests \/ Exhausted(resp)

\* the instant a qualifying observation of resp at t computes
ObservedInstant(resp, t) ==
    IF Exhausted(resp) THEN TimeUnixNoWrap(ParseInt64(resp.xReset).val)
    ELSE FirstRuleInstant(resp, t)

\* C14: backoffUntil always is the instant computed from the most recent
\* qualifying observation: each qualifying ObserveResponse, in the order in
\* which the observations take the write lock, replaces backoffUntil by its
\* own instant, be it earlier or later than the one in force, and nothing
\* else changes backoffUntil.
C14_LastObservationWins ==
    [][ /\ \A resp \in ApplyResponses :
              AdObserve(resp)
                  => ad'.backoffUntil = (IF Qualifies(resp) THEN ObservedInstant(resp, now)
                                         ELSE ad.backoffUntil)
        /\ ~Observes => ad'.backoffUntil = ad.backoffUntil ]_vars

\* C14 witness: a probe in flight has read a backoff that a second
\* observation has since replaced by an earlier instant, and the shortened
\* backoff is still active.
C14_Witness ==
    /\ gObsCount = 2
    /\ now < ad.backoffUntil
    /\ \E p \in Procs :
          /\ pc[p] \in {"adAllow", "apFirst", "apSecond"}
          /\ adLoc[p].seen = 1
          /\ adLoc[p].backoffUntil > ad.backoffUntil

----------------------------------------------------------------------------
(* Specification SpecClient: one goroutine makes DoJSON calls, one after    *)
(* the other, on a client whose transport chain holds the rate-limit        *)
(* middleware (strategy: none, or behavior Error in client scope over the   *)
(* token bucket lims[1], with or without the adaptive limiter `ad`), while  *)
(* the caller's context may end and the clock advances.  During a call the *)
(* server answers the next srv.left requests with 500 and every later one  *)
(* with srv.final (no response at all, a transport error, when srv.final   *)
(* is nil).                                                                 *)

MaxRetries == 1         \* largest maxRetries configured
BackoffTicks == 1       \* the duration given to ConstantBackoff / LinearBackoff
ClTicks == 2            \* how far the clock runs while the client is used
ClBurst == 1            \* largest burst of the client's token bucket
MaxFails == MaxRetries + 1      \* largest number of leading 5xx answers
ClMaxCalls == ClBurst + 1       \* DoJSON calls made

\* the error of a context that has ended: context.Canceled or
\* context.DeadlineExceeded, which no code path tells apart
CtxErr == "ctx.Err()"

PlainResponse(status) == Response(status, <<>>, <<>>, <<>>, <<>>, <<>>, <<>>)

ServerFinals ==
    {PlainResponse(200), PlainResponse(400),
     Response(StatusTooManyRequests, <<"1">>, <<>>, <<>>, <<>>, <<>>, <<>>),
     NilResponse}

NoStrategy == [kind |-> "none", behavior |-> "", adaptive |-> FALSE, limiter |-> "nil"]

Strategies ==
    {NoStrategy}
    \cup {[kind |-> "strategy", behavior |-> "error", adaptive |-> a, limiter |-> "tb"] :
            a \in BOOLEAN}

Backoffs ==
    {[kind |-> "NoBackoff", t |-> 0], [kind |-> "Constant", t |-> BackoffTicks],
     [kind |-> "Linear", t |-> BackoffTicks]}

\* NewClient(opts...): buildClient leaves retryWaitMin and retryWaitMax zero
InitClient ==
    /\ InitCommon
    /\ InitNoScope
    /\ \E n \in (-1)..MaxRetries, r \in {"NoRetry", "RetryOn500x", "Always"},
          b \in Backoffs, rl \in Strategies, burst \in 0..ClBurst :
          /\ cfg = [maxRetries |-> n, retryer |-> r, backoff |-> b,
                    retryWaitMin |-> 0, retryWaitMax |-> 0, rl |-> rl]
          /\ rl.kind = "none" => burst = 0
          /\ lims = <<NewTokenBucketRateLimiter(burst)>>
    /\ srv = NoServer

\* the strategy whose middleware buildClient puts into the transport chain:
\* the one WithRateLimitStrategy stored in the configuration
InstalledStrategy(c) == c.rl

\* DoJSON returns res
Return(res) ==
    /\ result' = res
    /\ gLastSent' = call.sent
    /\ call' = NoCall
    /\ srv' = NoServer
    /\ ctxDone' = ""

\* the loop body after `resp, doErr = c.baseClient.Do(req)`: classify, leave
\* the loop when not retry-worthy or out of attempts, else start the timer
\* and select; `sent` is the number of requests the call has sent by now
LoopTail(resp, doErr) ==
    LET shouldRetry == Classify(cfg.retryer, resp, doErr)
        wait == Backoff(cfg.backoff, cfg.retryWaitMin, cfg.retryWaitMax, call.i, resp)
        ready == BackoffSelect(ctxDone # "", wait <= 0)
    IN  IF ~shouldRetry \/ RemainAtt(cfg.maxRetries, call.i) <= 0
        THEN /\ Return(AfterLoop(resp, doErr, shouldRetry))
             /\ gPlain' = (gPlain /\ ctxDone = "" /\ doErr # "dial")
        ELSE /\ gPlain' = FALSE
             /\ UNCHANGED <<result, gLastSent, ctxDone, srv>>
             /\ \/ /\ "ctx" \in ready
                   /\ call' = [call EXCEPT !.pc = "ctxWoken", !.wake = now + wait,
                                           !.pending = NilResponse]
                \/ /\ "timer" \in ready
                   /\ call' = [call EXCEPT !.pc = "attempt", !.i = @ + 1,
                                           !.pending = NilResponse]
                \/ /\ ready = {}
                   /\ call' = [call EXCEPT !.pc = "backoff", !.wake = now + wait,
                                           !.pending = NilResponse]

\* c.DoJSON(ctx, ...) is called with a live context, against a server that
\* will answer k times with 500 and then with f
ClCall(k, f) ==
    /\ call.pc = "idle"
    /\ gClCalls < ClMaxCalls
    /\ gClCalls' = gClCalls + 1
    /\ call' = [NoCall EXCEPT !.pc = "attempt", !.k0 = k]
    /\ srv' = [left |-> k, final |-> f]
    /\ ctxDone' = ""
    /\ gIdleClosed' = 0
    /\ UNCHANGED <<now, limVars, ad, cfg, result, gServerSeen,
                   gLastSent, gPlain, outsideClient>>

\* an attempt, up to the sending of the request: the middleware's
\* strategy.Apply; on its error Do returns it; else the transport refuses a
\* request whose context has ended, fails to connect, or sends the request
ClAttempt ==
    /\ call.pc = "attempt"
    /\ LET ap == Apply(InstalledStrategy(cfg), ad, lims[1], now)
       IN  /\ lims' = [lims EXCEPT ![1] = ap.lim]
           /\ IF ap.err # ""
              THEN LoopTail(NilResponse, ap.err) /\ UNCHANGED gServerSeen
              ELSE IF ctxDone # ""
              THEN LoopTail(NilResponse, ctxDone) /\ UNCHANGED gServerSeen
              ELSE IF srv.left = 0 /\ srv.final = NilResponse
              THEN LoopTail(NilResponse, "dial") /\ UNCHANGED gServerSeen
              ELSE /\ call' = [call EXCEPT
                                 !.pc = "inflight", !.sent = @ + 1,
                                 !.pending = IF srv.left > 0
                                             THEN PlainResponse(StatusInternalServerError)
                                             ELSE srv.final]
                   /\ srv' = [srv EXCEPT !.left = IF @ > 0 THEN @ - 1 ELSE 0]
                   /\ gServerSeen' = gServerSeen + 1
                   /\ UNCHANGED <<result, gLastSent, ctxDone, gPlain>>
    /\ UNCHANGED <<now, ad, cfg, gIdleClosed, gClCalls, outsideClient>>

\* the rest of the attempt: the transport returns the response, or the
\* context's error when the context has ended meanwhile; the middleware
\* shows a response to strategy.Observe; then the loop goes on
ClRecv ==
    /\ call.pc = "inflight"
    /\ IF ctxDone # ""
       THEN /\ LoopTail(NilResponse, ctxDone)
            /\ UNCHANGED ad
       ELSE /\ LoopTail(call.pending, "")
            /\ ad' = Observe(InstalledStrategy(cfg), ad, call.pending, now)
    /\ UNCHANGED <<now, limVars, cfg, gServerSeen, gIdleClosed, gClCalls, outsideClient>>

\* the caller's context ends (cancel, or its deadline passes); a call parked
\* in the backoff select whose timer has not fired is woken by ctx.Done()
ClCancel ==
    /\ call.pc # "idle"
    /\ ctxDone = ""
    /\ ctxDone' = CtxErr
    /\ call' = IF call.pc = "backoff" /\ BackoffSelect(TRUE, now >= call.wake) = {"ctx"}
               THEN [call EXCEPT !.pc = "ctxWoken"]
               ELSE call
    /\ UNCHANGED <<now, limVars, ad, cfg, srv, result, gServerSeen, gIdleClosed, gClCalls,
                   gLastSent, gPlain, outsideClient>>

\* case <-timer.C: the backoff is over, the next attempt starts
ClBackoffDone ==
    /\ call.pc = "backoff"
    /\ "timer" \in BackoffSelect(FALSE, now >= call.wake)
    /\ call' = [call EXCEPT !.pc = "attempt", !.i = @ + 1, !.wake = 0]
    /\ UNCHANGED <<now, limVars, ad, cfg, srv, ctxDone, result, gServerSeen, gIdleClosed,
                   gClCalls, gLastSent, gPlain, outsideClient>>

\* case <-req.Context().Done(): timer.Stop(), CloseIdleConnections(),
\* return nil, req.Context().Err()
ClAbort ==
    /\ call.pc = "ctxWoken"
    /\ gIdleClosed' = gIdleClosed + 1
    /\ Return(Aborted(ctxDone))
    /\ gPlain' = FALSE
    /\ UNCHANGED <<now, limVars, ad, cfg, gServerSeen, gClCalls, outsideClient>>

\* the clock advances by one tick (bounded by ClTicks)
TickClient ==
    /\ now < ClTicks
    /\ now' = now + 1
    /\ UNCHANGED <<limVars, procVars, ghostVars, hostVars, adVars, clVars>>

NextClient ==
    \/ TickClient
    \/ \E k \in 0..MaxFails, f \in ServerFinals : ClCall(k, f)
    \/ ClAttempt
    \/ ClRecv
    \/ ClCancel
    \/ ClBackoffDone
    \/ ClAbort

SpecClient == InitClient /\ [][NextClient]_vars

----------------------------------------------------------------------------
(* Claims about the client (SpecClient). *)

\* a DoJSON call returns in this step
ReturnsNow == call.pc # "idle" /\ call'.pc = "idle"

\* the returned pair stems from a response of the server
ServerAnswered(res) ==
    \/ res.resp # NilResponse
    \/ res.err.kind = "ErrorResponse" /\ res.err.Response # NilResponse

\* the returned pair of a call refused by the limiter: no response, and an
\* error whose cause is ErrRateLimitExceeded
FailedLocally(res) ==
    /\ res.resp = NilResponse
    /\ res.err = [kind |-> "ErrorResponse", Response |-> NilResponse,
                  Original |-> ErrRateLimitExceeded]

C2_RetryOn5xxCounts ==
    [][ ( /\ ReturnsNow
          /\ cfg.retryer = "RetryOn500x" /\ cfg.maxRetries >= 0
          /\ cfg.rl.kind = "none"
          /\ ctxDone = ""
          /\ srv.final # NilResponse )
        => LET k == call.k0
               N == cfg.maxRetries
           IN  /\ gLastSent' = Min(k, N) + 1
               /\ k <= N => result' = [resp |-> srv.final, err |-> [kind |-> "nil"]]
               /\ k > N => /\ result'.resp = NilResponse
                           /\ result'.err.kind = "ErrorResponse"
                           /\ result'.err.Response.status >= StatusInternalServerError
                           /\ result'.err.Original = "" ]_vars

\* C2 witness: maxRetries = MaxRetries, the server failed MaxRetries times,
\* and the call returned the 200 of request MaxRetries + 1 with a nil error.
C2_Witness ==
    /\ cfg.retryer = "RetryOn500x" /\ cfg.maxRetries = MaxRetries
    /\ cfg.rl.kind = "none"
    /\ call.pc = "idle" /\ gClCalls = 1
    /\ gLastSent = MaxRetries + 1 /\ gServerSeen = MaxRetries + 1
    /\ result = [resp |-> PlainResponse(200), err |-> [kind |-> "nil"]]

\* the context ends in this step while the call is parked in the backoff
\* select and its timer has not fired
CtxEndsInBackoff ==
    /\ call.pc = "backoff" /\ now < call.wake
    /\ ctxDone = "" /\ ctxDone' # ""

\* the call leaves the ctx.Done() case: it returns a nil response and the
\* context's error as it is, has closed the idle connections once, and has
\* sent nothing more
AbortsNow ==
    /\ call'.pc = "idle"
    /\ result' = [resp |-> NilResponse, err |-> [kind |-> ctxDone]]
    /\ gIdleClosed' = gIdleClosed + 1
    /\ gServerSeen' = gServerSeen
    /\ gLastSent' = call.sent

\* C3: when the caller's context ends while DoJSON is in the backoff sleep,
\* the call is woken by the context; once woken it can return at once,
\* whatever the timer still has to run, and its only next step is to return
\* a nil response with exactly the context's error after closing the idle
\* connections, without sending another request.
C3_CancelEndsBackoff ==
    /\ [][ /\ CtxEndsInBackoff => call'.pc = "ctxWoken"
           /\ call.pc = "ctxWoken" => (call' = call \/ AbortsNow) ]_vars
    /\ [](call.pc = "ctxWoken" => ENABLED ClAbort)

\* C3 witness: a 5xx answer sent the call into a backoff of BackoffTicks; the
\* context ended during it and the call returned the context's error at
\* time 0, before the timer could fire.
C3_Witness ==
    /\ cfg.retryer = "RetryOn500x" /\ cfg.backoff.kind = "Constant"
    /\ call.pc = "idle" /\ gClCalls = 1
    /\ now = 0
    /\ result = Aborted(CtxErr)
    /\ gIdleClosed = 1
    /\ gLastSent = 1 /\ gServerSeen = 1


\* the step is an attempt up to the sending of the request (ClAttempt)
AttemptStep == call.pc = "attempt" /\ call' # call

\* the error strategy.Apply returns in that attempt ("" for nil)
ApplyErrNow == Apply(InstalledStrategy(cfg), ad, lims[1], now).err

\* the returned pair carries error e: as it is, or as the cause of an
\* ErrorResponse
Surfaces(res, e) ==
    /\ res.resp = NilResponse
    /\ \/ res.err.kind = e
       \/ res.err.kind = "ErrorResponse" /\ res.err.Original = e

\* C17: when Apply returns an error during an attempt, DoJSON ends the call
\* in that step and surfaces that error: the server sees no request of that
\* attempt, no backoff is slept and no further attempt is made, whatever the
\* configured retry strategy answers for a nil response and that error.
C17_ApplyErrorEndsCall ==
    [][ (AttemptStep /\ ApplyErrNow # "")
        => /\ call'.pc = "idle"
           /\ Surfaces(result', ApplyErrNow)
           /\ gServerSeen' = gServerSeen ]_vars

\* the part of C17 the code keeps: the same when the retry strategy answers
\* false for a nil response and Apply's error, or no retry is left; and in
\* no case does the server see a request of that attempt
C17_UnlessRetryerRetries ==
    [][ (AttemptStep /\ ApplyErrNow # "")
        => /\ gServerSeen' = gServerSeen
           /\ ( \/ ~Classify(cfg.retryer, NilResponse, ApplyErrNow)
                \/ RemainAtt(cfg.maxRetries, call.i) <= 0 )
              => (call'.pc = "idle" /\ Surfaces(result', ApplyErrNow)) ]_vars

\* C17 witness: attempt 0 of a call with a live context, against a server
\* that answers, sent nothing because Apply refused it, and the call has
\* gone on to attempt 1.
C17_Witness ==
    /\ cfg.rl.kind = "strategy"
    /\ call.pc = "attempt" /\ call.i = 1 /\ call.sent = 0
    /\ ctxDone = ""
    /\ srv.final # NilResponse

\* the outcome (resp, doErr) of c.baseClient.Do in the attempt that the
\* step completes
LastAttempt ==
    IF call.pc = "inflight"
    THEN IF ctxDone # "" THEN [resp |-> NilResponse, err |-> ctxDone]
         ELSE [resp |-> call.pending, err |-> ""]
    ELSE [resp |-> NilResponse,
          err |-> IF ApplyErrNow # "" THEN ApplyErrNow
                  ELSE IF ctxDone # "" THEN ctxDone ELSE "dial"]

\* the call leaves the retry loop by a break and returns in this step
LeavesLoop == ReturnsNow /\ call.pc \in {"attempt", "inflight"}

\* C18: DoJSON returns (response, nil) if and only if its last attempt had no
\* transport error and was classified not retry-worthy, and the response is
\* then that attempt's; in every other way of leaving the loop (retry budget
\* exhausted, or a transport error that is not retried) it returns a nil
\* response and an ErrorResponse carrying the last response, if any, and the
\* last transport error.
C18_SuccessIffCleanLastAttempt ==
    [][ LeavesLoop
        => LET la == LastAttempt
               clean == la.err = "" /\ ~Classify(cfg.retryer, la.resp, la.err)
           IN  /\ (result'.err.kind = "nil") <=> clean
               /\ clean => result'.resp = la.resp /\ la.resp # NilResponse
               /\ ~clean => /\ result'.resp = NilResponse
                            /\ result'.err = [kind |-> "ErrorResponse",
                                              Response |-> la.resp,
                                              Original |-> la.err] ]_vars

\* C18 witness: the retry budget ran out on a 5xx answer: the call sent
\* MaxRetries + 1 requests and returned a nil response and an error that
\* carries the last 5xx response and no transport error.
C18_Witness ==
    /\ cfg.retryer = "RetryOn500x" /\ cfg.maxRetries = MaxRetries
    /\ call.pc = "idle" /\ gClCalls = 1
    /\ gLastSent = MaxRetries + 1
    /\ result = [resp |-> NilResponse,
                 err |-> [kind |-> "ErrorResponse",
                          Response |-> PlainResponse(StatusInternalServerError),
                          Original |-> ""]]

\* C19: for every retry strategy, backoff strategy and server behaviour, one
\* DoJSON call makes at most max(maxRetries, 0) + 1 attempts and sends at
\* most one request per attempt: attempt i is followed by attempt i + 1 only
\* if it was classified retry-worthy and maxRetries - i > 0; so with
\* maxRetries <= 0 there is exactly one attempt, which sends exactly one
\* request when the limiter passes it, the context is live and the server
\* can be reached.
C19_AtMostMaxRetriesPlusOne ==
    [][ /\ call'.pc # "idle" => call'.sent <= call'.i + 1
        /\ call'.pc # "idle" => call'.i <= Max(cfg.maxRetries, 0)
        /\ (call.pc # "idle" /\ call'.pc # "idle" /\ call'.i # call.i)
           => /\ call'.i = call.i + 1
              /\ cfg.maxRetries - call.i > 0
              /\ call.pc \in {"attempt", "inflight"}
                 => Classify(cfg.retryer, LastAttempt.resp, LastAttempt.err)
        /\ ReturnsNow => gLastSent' <= Max(cfg.maxRetries, 0) + 1
        /\ (LeavesLoop /\ cfg.maxRetries <= 0)
           => /\ call.i = 0
              /\ (call.pc = "inflight") <=> (gLastSent' = 1)
              /\ (call.pc = "attempt") <=> (gLastSent' = 0) ]_vars

\* C19 witness: with maxRetries = MaxRetries and a retry strategy that always
\* answers true, the call stopped after MaxRetries + 1 requests although the
\* server answered each of them.
C19_Witness ==
    /\ cfg.retryer = "Always" /\ cfg.maxRetries = MaxRetries
    /\ cfg.rl.kind = "none"
    /\ call.pc = "idle" /\ gClCalls = 1
    /\ gLastSent = MaxRetries + 1 /\ gServerSeen = MaxRetries + 1
    /\ result.err.kind = "ErrorResponse" /\ result.err.Response = PlainResponse(200)

\* C20: once the caller's context has ended, DoJSON starts no further
\* attempt, also when the computed backoff is zero, and the call ends with
\* the context's own error, unwrapped.
C20_EndedContextIsTerminal ==
    [][ ctxDone # ""
        => /\ call'.pc # "idle" => call'.i = call.i
           /\ ReturnsNow => result' = Aborted(ctxDone) ]_vars

\* the part of C20 the code keeps: under an ended context the server sees no
\* further request, a further attempt starts only out of a backoff select
\* whose timer is ready as well, and a call that returns returns a nil
\* response
C20_EndedContextSendsNothing ==
    [][ ctxDone # ""
        => /\ gServerSeen' = gServerSeen
           /\ (call'.pc # "idle" /\ call'.i # call.i)
              => \/ call.pc = "backoff" /\ now >= call.wake
                 \/ /\ call.pc \in {"attempt", "inflight"}
                    /\ Backoff(cfg.backoff, cfg.retryWaitMin, cfg.retryWaitMax,
                               call.i, LastAttempt.resp) <= 0
           /\ ReturnsNow => result'.resp = NilResponse ]_vars

\* C20 witness: the context ended while the only request was in flight; the
\* retry strategy retries nothing, and the call returned the context's error
\* wrapped in an ErrorResponse.
C20_Witness ==
    /\ cfg.retryer = "NoRetry"
    /\ call.pc = "idle" /\ gClCalls = 1
    /\ gLastSent = 1
    /\ result = [resp |-> NilResponse,
                 err |-> [kind |-> "ErrorResponse", Response |-> NilResponse,
                          Original |-> CtxErr]]

----------------------------------------------------------------------------
(* Specification SpecWait: one goroutine sends requests, one after the      *)
(* other, through the rate-limit middleware of a strategy with behavior     *)
(* Wait in client scope over the token bucket lims[1], with or without the  *)
(* adaptive limiter `ad`.  Each request has its own context, which may      *)
(* carry a deadline and may be cancelled at any moment.  The server answers *)
(* with one of WtAnswers.                                                   *)

WtTicks == 4            \* how far the clock runs
WtBurst == 1            \* largest burst of the token bucket
WtMaxCalls == 3         \* requests the goroutine sends through the middleware
WtMaxTimeout == 2       \* longest timeout of a request's context

WtAnswers ==
    {PlainResponse(200),
     Response(StatusTooManyRequests, <<"1">>, <<>>, <<>>, <<>>, <<>>, <<>>)}

WaitStrategies ==
    {[kind |-> "strategy", behavior |-> "wait", adaptive |-> a, limiter |-> "tb"] :
        a \in BOOLEAN}

\* the positions inside strategy.Apply
WtInApply == {"apply", "adWait", "adSleep", "baseWait", "tbSleep"}

outsideWait ==
    <<procVars, gCalls, gWaits, gLog, winGhost, hostVars, adLoc, ret, gObs, gObsCount,
      srv, gIdleClosed, gLastSent, gPlain>>

InitWait ==
    /\ InitCommon
    /\ InitNoScope
    /\ \E rl \in WaitStrategies, burst \in 0..WtBurst :
          /\ cfg = [maxRetries |-> 0, retryer |-> "NoRetry",
                    backoff |-> [kind |-> "NoBackoff", t |-> 0],
                    retryWaitMin |-> 0, retryWaitMax |-> 0, rl |-> rl]
          /\ lims = <<NewTokenBucketRateLimiter(burst)>>
    /\ srv = NoServer

\* the middleware's RoundTrip returns (resp, err)
WtReturn(resp, err) ==
    /\ result' = [resp |-> resp, err |-> [kind |-> err]]
    /\ call' = NoCall

\* RoundTrip(req) is called; req's context is live and has deadline d
\* (-1: none)
WtCall(d) ==
    /\ call.pc = "idle"
    /\ gClCalls < WtMaxCalls
    /\ gClCalls' = gClCalls + 1
    /\ call' = [pc |-> "apply", wake |-> 0, deadline |-> d]
    /\ ctxDone' = ""
    /\ UNCHANGED <<now, limVars, ad, cfg, result, gServerSeen, gAdmits, outsideWait>>

\* Apply, first statement: with an adaptive limiter, s.adaptive.Allow(ctx),
\* whose answer behavior Wait does not look at
WtApply ==
    /\ call.pc = "apply"
    /\ IF cfg.rl.adaptive
       THEN /\ lims' = [lims EXCEPT ![1] = AdaptiveAllow(ad, lims[1], now).lim]
            /\ call' = [call EXCEPT !.pc = "adWait"]
       ELSE /\ call' = [call EXCEPT !.pc = "baseWait"]
            /\ UNCHANGED lims
    /\ UNCHANGED <<now, ad, cfg, ctxDone, result, gServerSeen, gClCalls, gAdmits, outsideWait>>

\* AdaptiveRateLimiter.Wait up to its select: during a backoff it sleeps
\* until backoffUntil, else it goes on to the base limiter's Wait
WtAdWait ==
    /\ call.pc = "adWait"
    /\ call' = IF InBackoff(ad.backoffUntil, now)
               THEN [call EXCEPT !.pc = "adSleep", !.wake = ad.backoffUntil]
               ELSE [call EXCEPT !.pc = "baseWait"]
    /\ UNCHANGED <<now, limVars, ad, cfg, ctxDone, result, gServerSeen, gClCalls, gAdmits,
                   outsideWait>>

\* case <-time.After(waitDuration): the backoff is over
WtAdSleepDone ==
    /\ call.pc = "adSleep"
    /\ "timer" \in BackoffSelect(ctxDone # "", now >= call.wake)
    /\ call' = [call EXCEPT !.pc = "baseWait", !.wake = 0]
    /\ UNCHANGED <<now, limVars, ad, cfg, ctxDone, result, gServerSeen, gClCalls, gAdmits,
                   outsideWait>>

\* case <-ctx.Done(): return ctx.Err(); the middleware returns it
WtAdSleepCtx ==
    /\ call.pc = "adSleep"
    /\ "ctx" \in BackoffSelect(ctxDone # "", now >= call.wake)
    /\ WtReturn(NilResponse, ctxDone)
    /\ UNCHANGED <<now, limVars, ad, cfg, ctxDone, gServerSeen, gClCalls, gAdmits, outsideWait>>

\* the base limiter's Wait up to its select: an error at once, nil at once
\* (Apply returns nil), or a reservation and a sleep until it is due
WtBaseWait ==
    /\ call.pc = "baseWait"
    /\ LET w == TBWaitCtx(lims[1], now, ctxDone # "", ctxDone, call.deadline)
       IN  /\ lims' = [lims EXCEPT ![1] = w.lim]
           /\ IF w.err # ""
              THEN WtReturn(NilResponse, w.err) /\ UNCHANGED gAdmits
              ELSE IF w.sleeps
              THEN /\ call' = [call EXCEPT !.pc = "tbSleep", !.wake = w.timeToAct]
                   /\ UNCHANGED <<result, gAdmits>>
              ELSE /\ call' = [call EXCEPT !.pc = "send"]
                   /\ gAdmits' = gAdmits + 1
                   /\ UNCHANGED result
    /\ UNCHANGED <<now, ad, cfg, ctxDone, gServerSeen, gClCalls, outsideWait>>

\* case <-ch: the reservation is due, Wait returns nil and so does Apply
WtTbSleepDone ==
    /\ call.pc = "tbSleep"
    /\ "timer" \in BackoffSelect(ctxDone # "", now >= call.wake)
    /\ call' = [call EXCEPT !.pc = "send", !.wake = 0]
    /\ gAdmits' = gAdmits + 1
    /\ UNCHANGED <<now, limVars, ad, cfg, ctxDone, result, gServerSeen, gClCalls, outsideWait>>

\* case <-ctx.Done(): r.Cancel(), return ctx.Err(); the middleware returns it
WtTbSleepCtx ==
    /\ call.pc = "tbSleep"
    /\ "ctx" \in BackoffSelect(ctxDone # "", now >= call.wake)
    /\ lims' = [lims EXCEPT ![1] = TBCancel(lims[1], now, call.wake)]
    /\ WtReturn(NilResponse, ctxDone)
    /\ UNCHANGED <<now, ad, cfg, ctxDone, gServerSeen, gClCalls, gAdmits, outsideWait>>

\* after Apply's nil: next.RoundTrip(req); the transport refuses a request
\* whose context has ended, else the server sees the request and answers
\* resp, which the middleware shows to strategy.Observe
WtSend(resp) ==
    /\ call.pc = "send"
    /\ IF ctxDone # ""
       THEN /\ WtReturn(NilResponse, ctxDone)
            /\ UNCHANGED <<ad, gServerSeen>>
       ELSE /\ WtReturn(resp, "nil")
            /\ gServerSeen' = gServerSeen + 1
            /\ ad' = Observe(cfg.rl, ad, resp, now)
    /\ UNCHANGED <<now, limVars, cfg, ctxDone, gClCalls, gAdmits, outsideWait>>

\* the caller cancels the request's context
WtCancel ==
    /\ call.pc # "idle"
    /\ ctxDone = ""
    /\ ctxDone' = CtxErr
    /\ UNCHANGED <<now, limVars, ad, cfg, call, result, gServerSeen, gClCalls, gAdmits,
                   outsideWait>>

\* the clock advances by one tick (bounded by WtTicks); a context whose
\* deadline is reached ends
TickWait ==
    /\ now < WtTicks
    /\ now' = now + 1
    /\ ctxDone' = IF /\ call.pc # "idle"
                     /\ ctxDone = ""
                     /\ call.deadline # -1
                     /\ now + 1 >= call.deadline
                  THEN CtxErr ELSE ctxDone
    /\ UNCHANGED <<limVars, ad, cfg, call, result, gServerSeen, gClCalls, gAdmits, outsideWait>>

NextWait ==
    \/ TickWait
    \/ \E d \in {-1} \cup {now + k : k \in 1..WtMaxTimeout} : WtCall(d)
    \/ WtApply
    \/ WtAdWait
    \/ WtAdSleepDone
    \/ WtAdSleepCtx
    \/ WtBaseWait
    \/ WtTbSleepDone
    \/ WtTbSleepCtx
    \/ \E resp \in WtAnswers : WtSend(resp)
    \/ WtCancel

SpecWait == InitWait /\ [][NextWait]_vars

----------------------------------------------------------------------------
(* Claims about behavior Wait (SpecWait). *)

\* Apply returns: the goroutine leaves Apply's positions
ApplyReturns == call.pc \in WtInApply /\ call'.pc \notin WtInApply

\* what Apply returns in that step ("nil" when the request goes on)
ApplyErr == IF call'.pc = "send" THEN "nil" ELSE result'.err.kind

\* C15: with behavior Wait, Apply never returns ErrRateLimitExceeded; it
\* returns nil once the limiter admits the request (no backoff is active and
\* the bucket's capacity covers the grant), or else returns the error of the
\* request's context, which has ended, and then the server does not see the
\* request of that attempt.
C15_WaitReturnsNilOrCtxErr ==
    [][ApplyReturns =>
         /\ ApplyErr # ErrRateLimitExceeded
         /\ \/ /\ ApplyErr = "nil"
               /\ ~InBackoff(ad.backoffUntil, now)
               /\ gAdmits' * TokenUnit <= lims[1].burst * TokenUnit + now
            \/ /\ ApplyErr = CtxErr
               /\ ctxDone = CtxErr
               /\ gServerSeen' = gServerSeen]_vars

\* the part of C15 the code keeps: the same for a bucket that can hold a
\* token and a context without deadline
C15_WithoutDeadline ==
    [][(ApplyReturns /\ lims[1].burst >= 1 /\ call.deadline = -1) =>
         /\ ApplyErr # ErrRateLimitExceeded
         /\ \/ /\ ApplyErr = "nil"
               /\ ~InBackoff(ad.backoffUntil, now)
               /\ gAdmits' * TokenUnit <= lims[1].burst * TokenUnit + now
            \/ /\ ApplyErr = CtxErr
               /\ ctxDone = CtxErr
               /\ gServerSeen' = gServerSeen]_vars

\* Apply has returned an error that is neither nil nor the context's, while
\* the context was live
C15_Witness ==
    /\ call.pc = "idle"
    /\ result.err.kind = ErrWouldExceedDeadline
    /\ gAdmits >= 1

----------------------------------------------------------------------------
(* Specification SpecHostStrategy: one goroutine uses a strategy built with *)
(* scope Host and adaptive enabled over a token-bucket factory: it calls    *)
(* Apply for the hosts, one call after the other, and responses are shown   *)
(* to Observe.  The per-host limiters live on the heap lims, hostMap maps a *)
(* host to its limiter.  gShadow holds, per host, the limiter of the same   *)
(* strategy built with adaptive disabled and given the same Apply calls       *)
(* (Absent while that strategy has none for the host).  Contexts never end. *)

\* no limiter built yet
Absent == [kind |-> "absent"]

HsTicks == 3            \* how far the clock runs
HsMaxOps == 4           \* Apply and Observe calls made, all told

\* the configuration a strategy is built from (rateLimitConfig and the
\* factory's burst)
HostConfigs ==
    {[scope |-> "host", behavior |-> b, adaptive |-> TRUE, burst |-> n] :
        b \in {"error", "wait"}, n \in 0..MaxBurst}

\* buildRateLimitStrategy for scope Host: the strategy's adaptive field is
\* nil whether adaptive is enabled or not; enabled, the factory of the scoped
\* limiter wraps each new limiter in an AdaptiveRateLimiter
BuildHostStrategy(c) ==
    [behavior |-> c.behavior,
     adaptive |-> "nil",
     factory |-> [kind |-> IF c.adaptive THEN "adaptive" ELSE "fresh", burst |-> c.burst]]

\* the scoped limiter's factory builds a limiter
HostFactory(f) ==
    IF f.kind = "adaptive"
    THEN [kind |-> "adaptive", a |-> NewAdaptiveRateLimiter,
          base |-> NewTokenBucketRateLimiter(f.burst)]
    ELSE NewTokenBucketRateLimiter(f.burst)

\* limiter.Allow(ctx) of a per-host limiter l at instant t
HostLimiterAllow(l, t) ==
    IF l.kind = "adaptive"
    THEN IF InBackoff(l.a.backoffUntil, t) THEN [ok |-> FALSE, timeToAct |-> t, lim |-> l]
         ELSE LET r == TBAllow(l.base, t)
              IN  [ok |-> r.ok, timeToAct |-> t, lim |-> [l EXCEPT !.base = r.lim]]
    ELSE LET r == TBAllow(l, t) IN [ok |-> r.ok, timeToAct |-> t, lim |-> r.lim]

\* limiter.Wait(ctx) of a per-host limiter l, called at instant t by the only
\* goroutine: whether it returns nil and when; an adaptive limiter sleeps
\* out its backoff first and then calls its base's Wait
HostLimiterWait(l, t) ==
    IF l.kind = "adaptive"
    THEN LET r == TBWaitReserve(l.base, Max(t, l.a.backoffUntil))
         IN  [ok |-> r.ok, timeToAct |-> r.timeToAct, lim |-> [l EXCEPT !.base = r.lim]]
    ELSE TBWaitReserve(l, t)

\* rateLimitStrategy.Apply of strategy s on the host's limiter l: the error
\* it returns ("" for nil), the instant at which it returns, the limiter after
HostApply(s, l, t) ==
    IF s.behavior = "wait"
    THEN LET r == HostLimiterWait(l, t)
         IN  [err |-> IF r.ok THEN "" ELSE ErrExceedsBurst, at |-> r.timeToAct, lim |-> r.lim]
    ELSE LET r == HostLimiterAllow(l, t)
         IN  [err |-> IF r.ok THEN "" ELSE ErrRateLimitExceeded, at |-> t, lim |-> r.lim]

\* rateLimitStrategy.Observe of strategy s: forwarded to s.adaptive unless
\* that is nil; the result is the heap afterwards
HostObserveEveryLimiter(s, heap, resp, t) ==
    [i \in DOMAIN heap |->
        IF heap[i].kind = "adaptive"
        THEN [heap[i] EXCEPT !.a = ObserveResponse(@, resp, t)]
        ELSE heap[i]]

HostObserve(s, heap, resp, t) ==
    IF s.adaptive = "nil" THEN heap
    ELSE [heap EXCEPT ![s.adaptive].a = ObserveResponse(@, resp, t)]

outsideHostStrategy ==
    <<procVars, gAdmits, gWaits, gLog, winGhost, clientLimit, loc, gHostAdmits, gDiscarded,
      ad, adLoc, ret, srv, ctxDone, gIdleClosed, gClCalls, gLastSent, gPlain>>

InitHostStrategy ==
    /\ InitCommon
    /\ scope = "host"
    /\ \E c \in HostConfigs :
          /\ cfg = [rl |-> c]
          /\ factory = BuildHostStrategy(c).factory
    /\ gShadow = [h \in Hosts |-> Absent]
    /\ lims = <<>>
    /\ srv = NoServer

\* strategy.Apply(ctx, h): getLimiterForHost (load, or build and store), then
\* the limiter's Allow or Wait; the strategy built with adaptive disabled is
\* given the same call
HsApply(h) ==
    /\ call.pc = "idle"
    /\ gCalls + gObsCount < HsMaxOps
    /\ gCalls' = gCalls + 1
    /\ LET s == BuildHostStrategy(cfg.rl)
           id == IF SyncMapLoad(hostMap, h) # 0 THEN hostMap[h] ELSE Len(lims) + 1
           l == IF SyncMapLoad(hostMap, h) # 0 THEN lims[id] ELSE HostFactory(s.factory)
           r == HostApply(s, l, now)
           s0 == BuildHostStrategy([cfg.rl EXCEPT !.adaptive = FALSE])
           l0 == IF gShadow[h] # Absent THEN gShadow[h] ELSE HostFactory(s0.factory)
           r0 == HostApply(s0, l0, now)
       IN  /\ lims' = IF id > Len(lims) THEN Append(lims, r.lim) ELSE [lims EXCEPT ![id] = r.lim]
           /\ hostMap' = [hostMap EXCEPT ![h] = id]
           /\ gShadow' = [gShadow EXCEPT ![h] = r0.lim]
           /\ gAgree' = (gAgree /\ r.err = r0.err /\ r.at = r0.at)
           /\ call' = [pc |-> "inApply", wake |-> r.at, host |-> h, err |-> r.err,
                       seen |-> gObsCount]
    /\ UNCHANGED <<now, scope, factory, cfg, result, gServerSeen, gObs, gObsCount,
                   outsideHostStrategy>>

\* Apply returns, at the instant its limiter fixed: with an error, or with
\* nil, and then the request is sent
HsApplyReturn ==
    /\ call.pc = "inApply"
    /\ now >= call.wake
    /\ result' = [resp |-> NilResponse, err |-> [kind |-> call.err, host |-> call.host]]
    /\ gServerSeen' = gServerSeen + (IF call.err = "" THEN 1 ELSE 0)
    /\ call' = NoCall
    /\ UNCHANGED <<now, limVars, scope, hostMap, factory, gShadow, gAgree, cfg, gCalls,
                   gObs, gObsCount, outsideHostStrategy>>

\* strategy.Observe(resp)
HsObserve(resp) ==
    /\ gCalls + gObsCount < HsMaxOps
    /\ gObsCount' = gObsCount + 1
    /\ lims' = HostObserve(BuildHostStrategy(cfg.rl), lims, resp, now)
    /\ gObs' = IF IsRetryAfterOnly(resp)
               THEN [t |-> now, shape |-> "retryAfterInt", n |-> Atoi(resp.retryAfter).val]
               ELSE [t |-> now, shape |-> "other", n |-> 0]
    /\ UNCHANGED <<now, scope, hostMap, factory, gShadow, gAgree, cfg, call, result,
                   gServerSeen, gCalls, outsideHostStrategy>>

\* the clock advances by one tick (bounded by HsTicks)
TickHostStrategy ==
    /\ now < HsTicks
    /\ now' = now + 1
    /\ UNCHANGED <<limVars, procVars, ghostVars, hostVars, adVars, clVars>>

NextHostStrategy ==
    \/ TickHostStrategy
    \/ \E h \in Hosts : HsApply(h)
    \/ HsApplyReturn
    \/ \E resp \in ApplyResponses : HsObserve(resp)

SpecHostStrategy == InitHostStrategy /\ [][NextHostStrategy]_vars

----------------------------------------------------------------------------
(* Claims about scope Host with adaptive enabled (SpecHostStrategy). *)

\* the token bucket inside a per-host limiter
BucketOf(l) == IF l.kind = "adaptive" THEN l.base ELSE l

\* C16: a strategy built with scope Host and adaptive enabled has no adaptive
\* state: an Observe of any response changes no limiter, no per-host limiter
\* is ever in a backoff, and every Apply call, for every host, returns what
\* the same strategy built with adaptive disabled returns, at the same
\* instant, and leaves the host's bucket as that strategy leaves it.
C16_HostAdaptiveIsInert ==
    [][ /\ gObsCount' # gObsCount => (lims' = lims /\ hostMap' = hostMap /\ ad' = ad)
        /\ gAgree'
        /\ \A h \in Hosts :
              IF hostMap'[h] = 0 THEN gShadow'[h] = Absent
              ELSE /\ BucketOf(lims'[hostMap'[h]]) = gShadow'[h]
                   /\ lims'[hostMap'[h]].a = NewAdaptiveRateLimiter ]_vars

\* C16 witness: a 429 whose Retry-After is still running was observed after
\* both hosts had their limiters, and an Apply made after it returned nil.
C16_Witness ==
    /\ gObs.shape = "retryAfterInt"
    /\ now < gObs.t + gObs.n * SecondTicks
    /\ \A h \in Hosts : hostMap[h] # 0
    /\ call.pc = "inApply" /\ call.seen = gObsCount /\ call.err = ""
    /\ now >= call.wake

----------------------------------------------------------------------------
(* Specification SpecCtx: one goroutine calls Allow and Wait, one call      *)
(* after the other, on a limiter (lims[1]: a token bucket or a fixed        *)
(* window) or on the AdaptiveRateLimiter `ad` that wraps it.  Each call has *)
(* its own context, which may be ended before the call, may carry a         *)
(* deadline and may be cancelled while the call runs.  A 429 with           *)
(* Retry-After may be observed between calls.  A goroutine parked in a      *)
(* select is woken by the first of its cases to become ready (call.woken).  *)

CxTicks == 4            \* how far the clock runs
CxBurst == 1            \* largest burst / window limit
CxMaxCalls == 2         \* Allow and Wait calls made
CxMaxObs == 1           \* responses observed
CxMaxTimeout == 2       \* longest timeout of a call's context

CxSleeping == {"adSleep", "fwSleep", "tbSleep"}

outsideCtx ==
    <<procVars, gWaits, gLog, winGhost, hostVars, adLoc, ret, gObs,
      cfg, srv, gServerSeen, gIdleClosed, gClCalls, gLastSent, gPlain>>

InitCtx ==
    /\ InitCommon
    /\ InitNoScope
    /\ InitNoClient
    /\ \E n \in 0..CxBurst :
          \/ lims = <<NewTokenBucketRateLimiter(n)>>
          \/ lims = <<NewFixedWindowRateLimiter(n, WindowTicks, 0)>>

\* the call returns e ("true"/"false" from Allow, "nil" or an error from Wait)
CxReturn(e) ==
    /\ result' = [resp |-> NilResponse,
                  err |-> [kind |-> e, call |-> call.kind, target |-> call.target,
                           ended0 |-> call.ended0]]
    /\ call' = NoCall

\* park in a select whose timer fires at instant w: a context that has ended
\* wakes the goroutine at once unless the timer is ready as well
CxPark(pos, w) ==
    call' = [call EXCEPT !.pc = pos, !.wake = w,
                         !.woken = IF ctxDone # "" /\ now < w THEN "ctx" ELSE ""]

\* Allow(ctx) or Wait(ctx) is called on the limiter (target "base") or on the
\* adaptive limiter, with a context that has ended already or not and has
\* deadline d (-1: none)
CxCall(k, target, ended, d) ==
    /\ call.pc = "idle"
    /\ gCalls < CxMaxCalls
    /\ gCalls' = gCalls + 1
    /\ call' = [pc |-> IF k = "Allow" THEN "allow"
                       ELSE IF target = "adaptive" THEN "adWait" ELSE "baseWait",
                kind |-> k, target |-> target, ended0 |-> ended, deadline |-> d,
                wake |-> 0, woken |-> "", before |-> lims[1], admits0 |-> gAdmits]
    /\ ctxDone' = IF ended THEN CtxErr ELSE ""
    /\ UNCHANGED <<now, limVars, ad, result, gAdmits, gObsCount, outsideCtx>>

\* Allow: the adaptive limiter answers false during a backoff and else asks
\* its base; the base admits on its own state
CxAllow ==
    /\ call.pc = "allow"
    /\ LET r == IF call.target = "adaptive" /\ InBackoff(ad.backoffUntil, now)
                THEN [ok |-> FALSE, lim |-> lims[1]]
                ELSE IF lims[1].kind = "tb" THEN TBAllow(lims[1], now)
                ELSE FwTryAdmit(lims[1], now)
       IN  /\ lims' = [lims EXCEPT ![1] = r.lim]
           /\ gAdmits' = gAdmits + (IF r.ok THEN 1 ELSE 0)
           /\ CxReturn(IF r.ok THEN "true" ELSE "false")
    /\ UNCHANGED <<now, ad, ctxDone, gCalls, gObsCount, outsideCtx>>

\* AdaptiveRateLimiter.Wait up to its select
CxAdWait ==
    /\ call.pc = "adWait"
    /\ IF InBackoff(ad.backoffUntil, now)
       THEN CxPark("adSleep", ad.backoffUntil)
       ELSE call' = [call EXCEPT !.pc = "baseWait"]
    /\ UNCHANGED <<now, limVars, ad, ctxDone, result, gCalls, gAdmits, gObsCount, outsideCtx>>

\* the base limiter's Wait up to its select.  Token bucket: an error at
\* once, nil at once, or a reservation and a sleep.  Fixed window: admit if
\* there is room, else sleep out the window
CxBaseWait ==
    /\ call.pc = "baseWait"
    /\ IF lims[1].kind = "tb"
       THEN LET w == TBWaitCtx(lims[1], now, ctxDone # "", ctxDone, call.deadline)
            IN  /\ lims' = [lims EXCEPT ![1] = w.lim]
                /\ IF w.err # "" THEN CxReturn(w.err) /\ UNCHANGED gAdmits
                   ELSE IF w.sleeps
                   THEN CxPark("tbSleep", w.timeToAct) /\ UNCHANGED <<result, gAdmits>>
                   ELSE CxReturn("nil") /\ gAdmits' = gAdmits + 1
       ELSE LET r == FwTryAdmit(lims[1], now)
            IN  /\ lims' = [lims EXCEPT ![1] = r.lim]
                /\ IF r.ok THEN CxReturn("nil") /\ gAdmits' = gAdmits + 1
                   ELSE /\ CxPark("fwSleep", now + FwWaitTime(r.lim, now))
                        /\ UNCHANGED <<result, gAdmits>>
    /\ UNCHANGED <<now, ad, ctxDone, gCalls, gObsCount, outsideCtx>>

\* the timer case of a select: the adaptive backoff is over (go on to the
\* base's Wait), the window may have reset (loop back), or the reservation is
\* due (return nil)
CxTimer ==
    /\ call.pc \in CxSleeping
    /\ call.woken = ""
    /\ "timer" \in BackoffSelect(ctxDone # "", now >= call.wake)
    /\ IF call.pc = "tbSleep"
       THEN CxReturn("nil") /\ gAdmits' = gAdmits + 1
       ELSE /\ call' = [call EXCEPT !.pc = "baseWait", !.wake = 0]
            /\ UNCHANGED <<result, gAdmits>>
    /\ UNCHANGED <<now, limVars, ad, ctxDone, gCalls, gObsCount, outsideCtx>>

\* the ctx.Done() case of a select: return ctx.Err(); the token bucket's
\* Wait cancels its reservation first
CxCtxDone ==
    /\ call.pc \in CxSleeping
    /\ \/ call.woken = "ctx"
       \/ "ctx" \in BackoffSelect(ctxDone # "", now >= call.wake)
    /\ lims' = IF call.pc = "tbSleep"
               THEN [lims EXCEPT ![1] = TBCancel(lims[1], now, call.wake)]
               ELSE lims
    /\ CxReturn(ctxDone)
    /\ UNCHANGED <<now, ad, ctxDone, gCalls, gAdmits, gObsCount, outsideCtx>>

\* the caller cancels the call's context; a goroutine parked in a select
\* whose timer has not fired is woken by it
CxCancel ==
    /\ call.pc # "idle"
    /\ ctxDone = ""
    /\ ctxDone' = CtxErr
    /\ call' = IF call.pc \in CxSleeping /\ now < call.wake
               THEN [call EXCEPT !.woken = "ctx"] ELSE call
    /\ UNCHANGED <<now, limVars, ad, result, gCalls, gAdmits, gObsCount, outsideCtx>>

\* a.ObserveResponse of a 429 with Retry-After, between calls
CxObserve ==
    /\ call.pc = "idle"
    /\ gObsCount < CxMaxObs
    /\ gObsCount' = gObsCount + 1
    /\ ad' = ObserveResponse(ad, Response(StatusTooManyRequests, <<"1">>, <<>>, <<>>,
                                          <<>>, <<>>, <<>>), now)
    /\ UNCHANGED <<now, limVars, call, ctxDone, result, gCalls, gAdmits, outsideCtx>>

\* the clock advances by one tick (bounded by CxTicks); a context whose
\* deadline is reached ends, and wakes a goroutine parked in a select whose
\* timer has not fired by then
TickCtx ==
    /\ now < CxTicks
    /\ now' = now + 1
    /\ LET ends == /\ call.pc # "idle" /\ ctxDone = ""
                   /\ call.deadline # -1 /\ now + 1 >= call.deadline
       IN  /\ ctxDone' = IF ends THEN CtxErr ELSE ctxDone
           /\ call' = IF ends /\ call.pc \in CxSleeping /\ now + 1 < call.wake
                      THEN [call EXCEPT !.woken = "ctx"] ELSE call
    /\ UNCHANGED <<limVars, ad, result, gCalls, gAdmits, gObsCount, outsideCtx>>

NextCtx ==
    \/ TickCtx
    \/ \E k \in {"Allow", "Wait"}, target \in {"base", "adaptive"}, ended \in BOOLEAN,
          d \in {-1} \cup {now + j : j \in 1..CxMaxTimeout} : CxCall(k, target, ended, d)
    \/ CxAllow
    \/ CxAdWait
    \/ CxBaseWait
    \/ CxTimer
    \/ CxCtxDone
    \/ CxCancel
    \/ CxObserve

SpecCtx == InitCtx /\ [][NextCtx]_vars

----------------------------------------------------------------------------
(* Claims about contexts in Allow and Wait (SpecCtx). *)

\* the call returns in this step
CxReturnsNow == call.pc # "idle" /\ call'.pc = "idle"

\* the admissions limiter l can still grant at instant t without waiting:
\* whole tokens in units, or free places of the window
Budget(l, t) ==
    IF l.kind = "tb" THEN TBAdvance(l, t)
    ELSE l.limit - (IF t - l.windowStart >= l.window THEN 0 ELSE l.count)

\* limiter l has an admission to grant at instant t
HasAdmission(l, t) ==
    IF l.kind = "tb" THEN l.burst >= 1 /\ Budget(l, t) >= TokenUnit
    ELSE Budget(l, t) >= 1

\* Allow decides on the limiter's state alone: true exactly when no backoff
\* of the called adaptive limiter is active and the limiter has an admission
AllowByStateAlone ==
    (CxReturnsNow /\ call.kind = "Allow")
    => ( (result'.err.kind = "true")
         <=> ( /\ ~(call.target = "adaptive" /\ now < ad.backoffUntil)
               /\ HasAdmission(lims[1], now) ) )

\* a Wait called with an ended context returns the context's error and
\* leaves the limiter's admissions as they were
EndedWaitIsDenied ==
    /\ result'.err.kind = CtxErr
    /\ gAdmits' = call.admits0
    /\ Budget(lims'[1], now) = Budget(call.before, now)

\* C21: Wait of the fixed-window limiter and of the adaptive limiter, called
\* with a context that has already ended, returns the context's error and
\* consumes no admission, even when one is available; Allow does not look at
\* the context and decides on the limiter's state alone.
C21_EndedContextDeniesWait ==
    [][ /\ ( /\ CxReturnsNow /\ call.kind = "Wait" /\ call.ended0
             /\ (lims[1].kind = "fw" \/ call.target = "adaptive") )
           => EndedWaitIsDenied
        /\ AllowByStateAlone ]_vars

\* the part of C21 the code keeps: the same for every Wait that reaches a
\* token bucket of burst >= 1 or a window that lets it wait, and Allow
\* throughout
C21_UnlessWindowHasRoom ==
    [][ /\ ( /\ CxReturnsNow /\ call.kind = "Wait" /\ call.ended0
             /\ \/ lims[1].kind = "tb" /\ lims[1].burst >= 1
                \/ lims[1].kind = "fw" /\ result'.err.kind # "nil" )
           => EndedWaitIsDenied
        /\ AllowByStateAlone ]_vars

\* C21 witness: a Wait on a fixed window with room, called with an ended
\* context, has returned nil and taken a place of the window.
C21_Witness ==
    /\ call.pc = "idle"
    /\ lims[1].kind = "fw"
    /\ result.err.kind = "nil" /\ result.err.call = "Wait" /\ result.err.ended0
    /\ gCalls = 1 /\ gAdmits = 1 /\ lims[1].count = 1

\* the context ends in this step while the Wait is parked in a select whose
\* timer has not fired by then
CtxEndsWhileBlocked ==
    /\ call.pc \in CxSleeping
    /\ ctxDone = "" /\ ctxDone' # ""
    /\ now' < call.wake

\* the Wait has been woken by its context
WokenByCtx == call.pc \in CxSleeping /\ call.woken = "ctx"

----------------------------------------------------------------------------
(* Specification SpecBackoff: the backoff strategies as functions.  Each    *)
(* step calls Backoff of one strategy on one choice of arguments and keeps  *)
(* the arguments and the returned duration in `result`.  Durations are      *)
(* IntBits bits wide.                                                       *)

BoMaxStep == 3          \* largest duration given to ConstantBackoff / LinearBackoff
BoMaxWait == 3          \* largest minWait / maxWait
BoMaxAttempt == 3       \* largest attempt number

BoStrategies ==
    {[kind |-> "NoBackoff", t |-> 0]}
    \cup {[kind |-> k, t |-> t] : k \in {"Constant", "Linear"}, t \in (-1)..BoMaxStep}

InitBackoff ==
    /\ InitCommon
    /\ InitNoScope
    /\ InitNoClient
    /\ lims = <<>>

\* wait := b.Backoff(min, max, attemptNum, resp)
BoBackoff(b, min, max, attemptNum, resp) ==
    /\ result' = [resp |-> resp,
                  err |-> [kind |-> "Backoff", b |-> b, min |-> min, max |-> max,
                           attemptNum |-> attemptNum,
                           wait |-> Backoff(b, min, max, attemptNum, resp)]]
    /\ UNCHANGED <<now, limVars, procVars, ghostVars, hostVars, adVars, cfg, srv, call,
                   ctxDone, gServerSeen, gIdleClosed, gClCalls, gLastSent, gPlain>>

NextBackoff ==
    \E b \in BoStrategies, min \in 0..BoMaxWait, max \in 0..BoMaxWait,
       attemptNum \in 0..BoMaxAttempt,
       resp \in {NilResponse, PlainResponse(StatusInternalServerError)} :
        BoBackoff(b, min, max, attemptNum, resp)

SpecBackoff == InitBackoff /\ [][NextBackoff]_vars

----------------------------------------------------------------------------
(* Claims about the backoff strategies (SpecBackoff). *)

\* the duration the strategy is to return for the arguments kept in r
BackoffByRule(r) ==
    CASE r.b.kind = "Linear" -> r.min + r.attemptNum * r.b.t
      [] r.b.kind = "Constant" -> r.b.t
      [] r.b.kind = "NoBackoff" -> 0

\* C23: for all inputs, LinearBackoff(step).Backoff(minWait, maxWait, n,
\* resp) is minWait + n * step, not clamped by maxWait; ConstantBackoff(d)
\* returns d and NoBackoff returns 0, whatever minWait, maxWait, the attempt
\* number and the response (which may be nil) are.
C23_BackoffFormulas ==
    result.err.kind = "Backoff" => result.err.wait = BackoffByRule(result.err)

\* the part of C23 the code keeps: the same whenever minWait + n * step is a
\* value of time.Duration
C23_WithinDurationRange ==
    (result.err.kind = "Backoff" /\ BackoffByRule(result.err) \in MinInt..MaxInt)
    => result.err.wait = BackoffByRule(result.err)

\* C23 witness: LinearBackoff has returned minWait + n * step for a nil
\* response, a duration above maxWait.
C23_Witness ==
    /\ result.err.kind = "Backoff" /\ result.err.b.kind = "Linear"
    /\ result.resp = NilResponse
    /\ result.err.attemptNum = 2 /\ result.err.b.t = 2 /\ result.err.min = 1
    /\ result.err.wait = 5 /\ result.err.max = 3

----------------------------------------------------------------------------
(* Specification SpecRetryWait: the client of SpecClient, built by          *)
(* buildClient from a clientConfig in which WithRetryWaitTimes has set      *)
(* MinRetryWait and MaxRetryWait, without rate limiting.  cfg.config keeps  *)
(* the clientConfig the client was built from.                              *)

RwMaxWait == 1          \* largest MinRetryWait / MaxRetryWait configured

\* the clientConfig after WithRetryStrategy(r), WithMaxRetries(n),
\* WithBackoffStrategy(b) and WithRetryWaitTimes(minWait, maxWait)
ClientConfigs ==
    {[Retryer |-> r, MaxRetries |-> MaxRetries, Backoff |-> b,
      MinRetryWait |-> minWait, MaxRetryWait |-> maxWait] :
        r \in {"RetryOn500x", "Always"}, b \in Backoffs,
        minWait \in 0..RwMaxWait, maxWait \in 0..RwMaxWait}

\* buildClient(cfg): the Client's fields; retryWaitMin and retryWaitMax are
\* not among the fields it sets
BuildClient(c) ==
    [maxRetries |-> c.MaxRetries, retryer |-> c.Retryer, backoff |-> c.Backoff,
     retryWaitMin |-> 0, retryWaitMax |-> 0,
     rl |-> NoStrategy, config |-> c]

InitRetryWait ==
    /\ InitCommon
    /\ InitNoScope
    /\ \E c \in ClientConfigs : cfg = BuildClient(c)
    /\ lims = <<NewTokenBucketRateLimiter(0)>>
    /\ srv = NoServer

SpecRetryWait == InitRetryWait /\ [][NextClient]_vars

----------------------------------------------------------------------------
(* Claims about the retry wait (SpecRetryWait). *)

\* the step ends an attempt that is followed by a retry: the call starts its
\* backoff, or goes on to the next attempt at once
RetryFollows ==
    /\ call.pc \in {"attempt", "inflight"}
    /\ \/ call'.pc \in {"backoff", "ctxWoken"}
       \/ call'.pc = "attempt" /\ call'.i = call.i + 1

\* the call sleeps duration d before the next attempt: its timer is set to
\* fire d from now, or d is not positive and the timer is ready at once
SleepsFor(d) ==
    IF call'.pc = "attempt" THEN d <= 0 ELSE call'.wake = now + d

\* C24: the client stores the minWait and maxWait set by WithRetryWaitTimes
\* and passes them, with the 0-based number of the attempt that just failed
\* and its response, to BackoffStrategy.Backoff, then sleeps the returned
\* duration before the next attempt; hence with LinearBackoff(step), step
\* >= 0, the delay before every retry is at least the configured minWait.
C24_ConfiguredWaitsReachBackoff ==
    [][ /\ cfg.retryWaitMin = cfg.config.MinRetryWait
        /\ cfg.retryWaitMax = cfg.config.MaxRetryWait
        /\ RetryFollows
           => /\ SleepsFor(Backoff(cfg.backoff, cfg.config.MinRetryWait,
                                   cfg.config.MaxRetryWait, call.i, LastAttempt.resp))
              /\ (cfg.backoff.kind = "Linear" /\ call'.pc = "attempt")
                 => cfg.config.MinRetryWait <= 0 ]_vars

\* the part of C24 the code keeps: the client passes its fields retryWaitMin
\* and retryWaitMax, the number of the attempt that just failed and its
\* response to Backoff and sleeps the returned duration
C24_FieldsReachBackoff ==
    [][ RetryFollows
        => SleepsFor(Backoff(cfg.backoff, cfg.retryWaitMin, cfg.retryWaitMax,
                             call.i, LastAttempt.resp)) ]_vars

\* C24 witness: with LinearBackoff and a configured minWait of one tick, the
\* first request was answered with a 5xx and the retry has started at the
\* same instant.
C24_Witness ==
    /\ cfg.backoff.kind = "Linear" /\ cfg.config.MinRetryWait = RwMaxWait
    /\ cfg.retryer = "RetryOn500x"
    /\ call.pc = "attempt" /\ call.i = 1 /\ call.sent = 1
    /\ now = 0

----------------------------------------------------------------------------
(* Specification SpecScope: one goroutine calls Allow and Wait, one call    *)
(* after the other, for the hosts of ScHosts on a ScopedRateLimiter with    *)
(* scope Client whose clientLimit is nil (0) or the limiter lims[1], a      *)
(* token bucket or a fixed window.  gShadow is a stand-alone limiter of the *)
(* same construction that is given every call directly; gLog records the    *)
(* calls.  Contexts never end.                                              *)

ScTicks == 2            \* how far the clock runs
ScMaxCalls == 3         \* Allow and Wait calls made

ScHosts == Hosts \cup {"c"}

\* one round of limiter l's Wait at instant t: whether Wait is through with
\* it, its verdict, the instant at which it returns or looks again, and the
\* limiter afterwards
LimiterWaitRound(l, t) ==
    IF l.kind = "tb"
    THEN LET r == TBWaitReserve(l, t)
         IN  [done |-> TRUE, ok |-> r.ok, at |-> r.timeToAct, lim |-> r.lim]
    ELSE LET r == FwTryAdmit(l, t)
         IN  [done |-> r.ok, ok |-> r.ok,
              at |-> IF r.ok THEN t ELSE t + FwWaitTime(r.lim, t), lim |-> r.lim]

\* limiter l's Allow at instant t
LimiterAllow(l, t) ==
    LET r == IF l.kind = "tb" THEN TBAllow(l, t) ELSE FwTryAdmit(l, t)
    IN  [done |-> TRUE, ok |-> r.ok, at |-> t, lim |-> r.lim]

\* ScopedRateLimiter.Allow(ctx, host) / Wait(ctx, host), case
\* RateLimitScopeClient: a nil clientLimit admits, else the call goes to
\* clientLimit; the result is the verdict and the heap afterwards
ScopedClientCallSkipsHostC(k, cl, heap, host, t) ==
    IF cl = 0 \/ host = "c" THEN [done |-> TRUE, ok |-> TRUE, at |-> t, heap |-> heap]
    ELSE LET r == IF k = "Allow" THEN LimiterAllow(heap[cl], t)
                  ELSE LimiterWaitRound(heap[cl], t)
         IN  [done |-> r.done, ok |-> r.ok, at |-> r.at,
              heap |-> [heap EXCEPT ![cl] = r.lim]]

ScopedClientCall(k, cl, heap, host, t) ==
    IF cl = 0 THEN [done |-> TRUE, ok |-> TRUE, at |-> t, heap |-> heap]
    ELSE LET r == IF k = "Allow" THEN LimiterAllow(heap[cl], t)
                  ELSE LimiterWaitRound(heap[cl], t)
         IN  [done |-> r.done, ok |-> r.ok, at |-> r.at,
              heap |-> [heap EXCEPT ![cl] = r.lim]]

outsideScope ==
    <<procVars, gWaits, winGhost, scope, clientLimit, hostMap, factory, loc, gHostAdmits,
      gDiscarded, adVars, cfg, srv, ctxDone, result, gServerSeen, gIdleClosed, gClCalls,
      gLastSent, gPlain>>

\* NewScopedRateLimiter(RateLimitScopeClient, limiter, nil)
InitScope ==
    /\ InitAtRest
    /\ InitNoClient
    /\ scope = "client"
    /\ factory = [kind |-> "none"]
    /\ \E n \in 0..MaxBurst :
          \/ lims = <<NewTokenBucketRateLimiter(n)>>
          \/ lims = <<NewFixedWindowRateLimiter(n, WindowTicks, 0)>>
    /\ gShadow = lims[1]
    /\ clientLimit \in {0, 1}

\* one round of the call in progress, on the scoped limiter and on the
\* stand-alone one: the call returns, or sleeps until its limiter lets it
\* look again
ScRound(k, h) ==
    LET r == ScopedClientCall(k, clientLimit, lims, h, now)
        r0 == IF k = "Allow" THEN LimiterAllow(gShadow, now)
              ELSE LimiterWaitRound(gShadow, now)
    IN  /\ lims' = r.heap
        /\ gShadow' = r0.lim
        /\ gAgree' = (gAgree /\ (clientLimit # 0 => (r.ok = r0.ok /\ r.at = r0.at)))
        /\ IF r.done /\ r.at <= now
           THEN /\ call' = NoCall
                /\ gAdmits' = gAdmits + (IF r.ok THEN 1 ELSE 0)
                /\ gLog' = Append(gLog, [t |-> now, host |-> h, kind |-> k, ok |-> r.ok])
           ELSE /\ call' = [pc |-> IF r.done THEN "scDue" ELSE "scAgain", wake |-> r.at,
                            host |-> h, kind |-> k]
                /\ UNCHANGED <<gAdmits, gLog>>

\* s.Allow(ctx, h) or s.Wait(ctx, h) is called
ScCall(k, h) ==
    /\ call.pc = "idle"
    /\ gCalls < ScMaxCalls
    /\ gCalls' = gCalls + 1
    /\ ScRound(k, h)
    /\ UNCHANGED <<now, outsideScope>>

\* the token bucket's reservation is due: Wait returns nil
ScWaitDue ==
    /\ call.pc = "scDue"
    /\ now >= call.wake
    /\ call' = NoCall
    /\ gAdmits' = gAdmits + 1
    /\ gLog' = Append(gLog, [t |-> now, host |-> call.host, kind |-> call.kind, ok |-> TRUE])
    /\ UNCHANGED <<now, limVars, gCalls, gShadow, gAgree, outsideScope>>

\* the fixed window's timer has fired: its Wait loops back
ScWaitAgain ==
    /\ call.pc = "scAgain"
    /\ now >= call.wake
    /\ ScRound(call.kind, call.host)
    /\ UNCHANGED <<now, gCalls, outsideScope>>

\* the clock advances by one tick (bounded by ScTicks)
TickScope ==
    /\ now < ScTicks
    /\ now' = now + 1
    /\ UNCHANGED <<limVars, procVars, ghostVars, hostVars, adVars, clVars>>

NextScope ==
    \/ TickScope
    \/ \E k \in {"Allow", "Wait"}, h \in ScHosts : ScCall(k, h)
    \/ ScWaitDue
    \/ ScWaitAgain

SpecScope == InitScope /\ [][NextScope]_vars

\* the budget the limiter was built with
Capacity(l) == IF l.kind = "tb" THEN l.burst ELSE l.limit

\* the calls logged so far whose verdict was ok
Admitted(log) == {i \in 1..Len(log) : log[i].ok}

\* so far every call was an Allow made at instant 0
OnlyAllowsAtZero == \A i \in 1..Len(gLog) : gLog[i].kind = "Allow" /\ gLog[i].t = 0

(* C25: a ScopedRateLimiter with scope Client ignores the host: whatever    *)
(* hosts the Allow and Wait calls name, each gets the verdict, at the       *)
(* instant, that the one limiter gives when called directly, and the        *)
(* limiter is left as the direct calls leave it; of Allow calls made at one *)
(* instant exactly the first Capacity are admitted, so with a budget of 2   *)
(* two calls for two hosts succeed and a third for another host is denied.  *)
(* A nil limiter admits every call at once.                                 *)
C25_ClientScopeSharesOneBudget ==
    /\ clientLimit # 0 =>
          /\ gAgree
          /\ lims[clientLimit] = gShadow
          /\ OnlyAllowsAtZero =>
                \A i \in 1..Len(gLog) : gLog[i].ok <=> i <= Capacity(lims[clientLimit])
    /\ clientLimit = 0 =>
          /\ call.pc = "idle"
          /\ Len(gLog) = gCalls
          /\ Admitted(gLog) = 1..Len(gLog)

\* budget 2: Allow for two different hosts succeeded, Allow for a third host
\* was denied
C25_Witness ==
    /\ clientLimit # 0
    /\ Capacity(lims[clientLimit]) = 2
    /\ OnlyAllowsAtZero
    /\ Len(gLog) = 3
    /\ Cardinality({gLog[i].host : i \in 1..3}) = 3
    /\ Admitted(gLog) = {1, 2}

----------------------------------------------------------------------------
(* Specification SpecLimit: responses of any status, with and without limit *)
(* headers, and nil responses are observed by one AdaptiveRateLimiter, and  *)
(* GetLastObservedLimit is called in between.  gObs keeps the most recent   *)
(* observed response that carried a limit header Atoi accepts.              *)

LmMaxOps == 4           \* ObserveResponse and GetLastObservedLimit calls made

\* responses of three statuses with an X-RateLimit-Limit (absent, positive,
\* negative, unparseable) and a RateLimit-Limit (absent, in range, out of
\* the int range), and a 429 with its Retry-After
LmResponses ==
    {Response(st, <<>>, <<>>, <<>>, xl, l, <<>>) :
        st \in {200, StatusTooManyRequests, 500},
        xl \in {<<>>, <<"5">>, <<"-", "3">>, <<"x">>},
        l \in {<<>>, <<"7">>, <<"9">>}}
    \cup {Response(StatusTooManyRequests, <<"1">>, <<>>, <<>>, <<"2">>, <<>>, <<>>)}
    \cup {NilResponse}

\* the integers of the limit headers of resp that Atoi accepts
ParseableLimits(resp) ==
    {Atoi(h).val : h \in {g \in {resp.xLimit, resp.limit} : g # <<>> /\ Atoi(g).ok}}

\* the variables the observation of limits leaves alone
outsideLimit ==
    <<gWaits, gLog, winGhost, hostVars, cfg, srv, call, ctxDone, gServerSeen, gIdleClosed,
      gClCalls, gLastSent, gPlain>>

\* a.ObserveResponse(resp), atomic under the write lock
LmObserve(resp) ==
    /\ gCalls + gObsCount < LmMaxOps
    /\ ad' = ObserveResponse(ad, resp, now)
    /\ gObsCount' = gObsCount + 1
    /\ gObs' = IF resp # NilResponse /\ ParseableLimits(resp) # {}
               THEN [t |-> now, shape |-> "limit", n |-> 0, resp |-> resp]
               ELSE gObs
    /\ UNCHANGED <<now, limVars, procVars, gCalls, gAdmits, adLoc, ret, result, outsideLimit>>

\* a.GetLastObservedLimit(), atomic under the read lock; result keeps the
\* returned integer
LmGetLastObservedLimit ==
    /\ gCalls + gObsCount < LmMaxOps
    /\ gCalls' = gCalls + 1
    /\ result' = [resp |-> NilResponse, err |-> [kind |-> "limit", n |-> ad.lastObservedLimit]]
    /\ UNCHANGED <<now, limVars, procVars, gAdmits, adVars, outsideLimit>>

NextLimit ==
    \/ \E resp \in LmResponses : LmObserve(resp)
    \/ LmGetLastObservedLimit

SpecLimit == InitAdaptive /\ [][NextLimit]_vars

\* what GetLastObservedLimit is to return: 0 before any limit header was
\* parsed, then an integer of a parseable limit header of the most recent
\* response that carried one
ExpectedLimits == IF gObs = NoObs THEN {0} ELSE ParseableLimits(gObs.resp)

(* C26: GetLastObservedLimit returns 0 until a limit header has been        *)
(* parsed, and afterwards the integer of the X-RateLimit-Limit or           *)
(* RateLimit-Limit header of the most recently observed response that       *)
(* carried a parseable one, whatever its status; a response without a       *)
(* parseable limit header, and a nil response, leave the value unchanged.   *)
C26_LastObservedLimit ==
    /\ [](ad.lastObservedLimit \in ExpectedLimits)
    /\ [][gCalls' # gCalls
            => (result'.err.kind = "limit" /\ result'.err.n \in ExpectedLimits)]_vars
    /\ [][(Observes /\ gObs' = gObs) => ad'.lastObservedLimit = ad.lastObservedLimit]_vars

\* a limit was taken from a 429, a later 200 without a parseable limit header
\* was observed, and GetLastObservedLimit then returned the 429's limit
C26_Witness ==
    /\ gObs # NoObs
    /\ gObs.resp.status = StatusTooManyRequests
    /\ gObsCount >= 2
    /\ result.err = [kind |-> "limit", n |-> 2]
    /\ ad.lastObservedLimit = 2

----------------------------------------------------------------------------
(* Specification SpecBody: DoJSON calls with and without a payload, against *)
(* a server that answers some attempts with 500 and a transport that may    *)
(* fail after reading any part of the request body.  The client has no      *)
(* backoff and no rate-limit strategy, and contexts never end.  gLog keeps  *)
(* the bodies the server received during the current or last call.          *)

BdMaxCalls == 2         \* DoJSON calls made
BdMaxLen == 2           \* longest payload string

\* no payload (a nil `payload any`)
NoPayload == [kind |-> "nil", s |-> <<>>]

RECURSIVE StringsUpTo(_)
StringsUpTo(n) ==
    IF n = 0 THEN {<<>>}
    ELSE LET shorter == StringsUpTo(n - 1)
         IN  shorter \cup {Append(x, c) : x \in shorter, c \in {"a", "b"}}

Payloads == {NoPayload} \cup {[kind |-> "string", s |-> x] : x \in StringsUpTo(BdMaxLen)}

\* json.NewEncoder(buf).Encode(payload) for a string: the quoted string and
\* a newline
Encode(payload) == <<"\"">> \o payload.s \o <<"\"", "\n">>

\* an io.ReadCloser over data, read up to pos; a nil Body
Reader(data) == [nil |-> FALSE, data |-> data, pos |-> 0]
NilBody == [nil |-> TRUE, data |-> <<>>, pos |-> 0]

\* what is left to read of body r
Unread(r) == SubSeq(r.data, r.pos + 1, Len(r.data))

\* a []byte: nil, or the bytes
NilBytes == [nil |-> TRUE, bytes |-> <<>>]
Bytes(b) == [nil |-> FALSE, bytes |-> b]

\* NewRequestJSON: req.Body
NewRequestBody(payload) ==
    IF payload = NoPayload THEN NilBody ELSE Reader(Encode(payload))

\* `if req.Body != nil { reqBodyBytes, _ = io.ReadAll(req.Body) }`: the
\* captured bytes and the body afterwards
CaptureBody(r) ==
    IF r.nil THEN [reqBodyBytes |-> NilBytes, body |-> r]
    ELSE [reqBodyBytes |-> Bytes(Unread(r)), body |-> [r EXCEPT !.pos = Len(r.data)]]

\* `if reqBodyBytes != nil { req.Body = io.NopCloser(bytes.NewBuffer(reqBodyBytes)) }`
BodyForAttemptKeepsBody(reqBodyBytes, r) == r

BodyForAttempt(reqBodyBytes, r) ==
    IF reqBodyBytes.nil THEN r ELSE Reader(reqBodyBytes.bytes)

outsideBody ==
    <<now, limVars, procVars, gCalls, gAdmits, gWaits, winGhost, hostVars, adVars, cfg,
      ctxDone, gIdleClosed, gPlain>>

InitBody ==
    /\ InitCommon
    /\ InitNoScope
    /\ \E n \in 0..MaxRetries, r \in {"NoRetry", "RetryOn500x", "Always"} :
          cfg = [maxRetries |-> n, retryer |-> r, backoff |-> [kind |-> "NoBackoff", t |-> 0],
                 retryWaitMin |-> 0, retryWaitMax |-> 0, rl |-> NoStrategy]
    /\ lims = <<NewTokenBucketRateLimiter(0)>>
    /\ srv = NoServer

\* c.DoJSON(ctx, method, url, payload) up to the loop, against a server that
\* will answer k times with 500 and then with 200
BdCall(payload, k) ==
    /\ call.pc = "idle"
    /\ gClCalls < BdMaxCalls
    /\ gClCalls' = gClCalls + 1
    /\ LET c == CaptureBody(NewRequestBody(payload))
       IN  call' = [pc |-> "attempt", i |-> 0, sent |-> 0, payload |-> payload,
                    body |-> c.body, reqBodyBytes |-> c.reqBodyBytes]
    /\ srv' = [left |-> k, final |-> PlainResponse(200)]
    /\ gLog' = <<>>
    /\ UNCHANGED <<result, gServerSeen, gLastSent, outsideBody>>

\* the loop body after Do: classify, leave the loop or go round again (the
\* timer of a zero wait has fired, the context is live)
BdLoopTail(resp, doErr, body, sent) ==
    LET shouldRetry == Classify(cfg.retryer, resp, doErr)
        wait == Backoff(cfg.backoff, cfg.retryWaitMin, cfg.retryWaitMax, call.i, resp)
    IN  IF ~shouldRetry \/ RemainAtt(cfg.maxRetries, call.i) <= 0
        THEN /\ result' = AfterLoop(resp, doErr, shouldRetry)
             /\ gLastSent' = sent
             /\ call' = NoCall
        ELSE /\ "timer" \in BackoffSelect(ctxDone # "", wait <= 0)
             /\ call' = [call EXCEPT !.i = @ + 1, !.body = body, !.sent = sent]
             /\ UNCHANGED <<result, gLastSent>>

\* one attempt: the body is set, Do sends the request; the transport fails
\* after reading n bytes of the body, or the server receives the whole of
\* what the body still holds and answers
BdAttempt ==
    /\ call.pc = "attempt"
    /\ LET body == BodyForAttempt(call.reqBodyBytes, call.body)
           rest == Unread(body)
       IN  \/ \E n \in 0..Len(rest) :
                /\ BdLoopTail(NilResponse, "dial",
                              [body EXCEPT !.pos = @ + n], call.sent)
                /\ UNCHANGED <<srv, gLog, gServerSeen>>
           \/ /\ gLog' = Append(gLog, rest)
              /\ gServerSeen' = gServerSeen + 1
              /\ srv' = [srv EXCEPT !.left = IF @ > 0 THEN @ - 1 ELSE 0]
              /\ BdLoopTail(IF srv.left > 0 THEN PlainResponse(StatusInternalServerError)
                            ELSE srv.final, "",
                            [body EXCEPT !.pos = Len(body.data)], call.sent + 1)
    /\ UNCHANGED <<gClCalls, outsideBody>>

NextBody ==
    \/ \E payload \in Payloads, k \in 0..MaxFails : BdCall(payload, k)
    \/ BdAttempt

SpecBody == InitBody /\ [][NextBody]_vars

\* this step sends a request to the server
SendsBody == gLog' # gLog /\ Len(gLog') > 0

(* C27: every attempt of one DoJSON call sends a request body identical,    *)
(* byte for byte, to the body captured once before the loop (the encoding   *)
(* of the payload, or nothing when there is no payload): a retry never      *)
(* sends an empty, truncated or partly consumed body, and the captured      *)
(* bytes do not change while the call runs.                                 *)
C27_EveryAttemptSendsCapturedBody ==
    /\ [][SendsBody =>
            /\ gLog'[Len(gLog')] = call.reqBodyBytes.bytes
            /\ call.reqBodyBytes =
                 (IF call.payload = NoPayload THEN NilBytes ELSE Bytes(Encode(call.payload)))]_vars
    /\ [][(call.pc = "attempt" /\ call'.pc = "attempt")
            => call'.reqBodyBytes = call.reqBodyBytes]_vars

\* the server received the same non-empty body on the first attempt, which
\* read it to its end, and on the retry
C27_Witness ==
    /\ Len(gLog) = 2
    /\ gLog[1] = gLog[2]
    /\ Len(gLog[1]) = BdMaxLen + 3
    /\ call.pc = "idle"
    /\ gLastSent = 2

----------------------------------------------------------------------------
(* Specification SpecSignal: the goroutines of Procs call Send,             *)
(* SendWithContext (with a live or an already cancelled context), Close and *)
(* Next on one JobSignal, which is kept in lims[1]: the channel's buffer    *)
(* and capacity, whether the channel has been closed, the closed flag, and  *)
(* the RWMutex (number of read holders, whether the write lock is held).    *)
(* pc[p] is goroutine p's position, loc[p] its locals and what its last     *)
(* call returned; the signals sent are numbered 1, 2, ...                   *)

SgCap == 1              \* largest buffer capacity
SgMaxOps == 4           \* calls made on the JobSignal, all told

\* NewJobSignal(id, bufCap)
NewJobSignal(bufCap) ==
    [kind |-> "signal", signals |-> <<>>, cap |-> bufCap, chClosed |-> FALSE,
     closed |-> FALSE, readers |-> 0, writer |-> FALSE]

\* `case s.signals <- signal` / `default` of Send's select: the channel
\* operation that happens, given whether a receiver is parked on the channel
SendSelect(s, parked) ==
    IF s.chClosed THEN "panic"
    ELSE IF parked THEN "handoff"
    ELSE IF Len(s.signals) < s.cap THEN "enqueue"
    ELSE "drop"

\* the select of SendWithContext: the outcomes it may choose from; default
\* only when no other case is ready
SendWithContextSelect(s, parked, canceled) ==
    LET snd == SendSelect(s, parked)
        ready == (IF canceled THEN {"ctx"} ELSE {}) \cup (IF snd # "drop" THEN {snd} ELSE {})
    IN  IF ready = {} THEN {"drop"} ELSE ready

\* Close under the write lock: the flag and the channel afterwards, and
\* whether close(s.signals) panicked
CloseBodyUnguarded(s) ==
    [sig |-> [s EXCEPT !.closed = TRUE, !.chClosed = TRUE], panic |-> s.chClosed]

CloseBody(s) ==
    IF ~s.closed
    THEN [sig |-> [s EXCEPT !.closed = TRUE, !.chClosed = TRUE], panic |-> s.chClosed]
    ELSE [sig |-> s, panic |-> FALSE]

Parked == {q \in Procs : pc[q] = "next"}

\* a goroutine's locals: the call and its number, its signal, its context,
\* and what came of it (for Next: the signal and ok it returned)
SgLoc(op, v, canceled) ==
    [kind |-> op, n |-> gCalls + 1, v |-> v, ok |-> FALSE, canceled |-> canceled, how |-> ""]

outsideSignal ==
    <<now, wake, gAdmits, gWaits, gLog, winGhost, scope, clientLimit, hostMap, factory, gShadow,
      gHostAdmits, gDiscarded, gAgree, adVars, clVars>>

InitSignal ==
    /\ InitCommon
    /\ InitNoScope
    /\ InitNoClient
    /\ \E c \in 0..SgCap : lims = <<NewJobSignal(c)>>

\* s.mu.RLock() of Send or SendWithContext
SgRLock(p, op, canceled) ==
    /\ pc[p] = "idle"
    /\ gCalls < SgMaxOps
    /\ ~lims[1].writer
    /\ lims' = [lims EXCEPT ![1].readers = @ + 1]
    /\ pc' = [pc EXCEPT ![p] = "send"]
    /\ loc' = [loc EXCEPT ![p] = SgLoc(op, gCalls + 1, canceled)]
    /\ gCalls' = gCalls + 1
    /\ UNCHANGED outsideSignal

\* the channel operation `how` of goroutine p's send, and RUnlock
SgDeliver(p, how) ==
    CASE how = "panic" ->
           /\ pc' = [pc EXCEPT ![p] = "panic"]
           /\ UNCHANGED <<lims, loc>>
      [] how = "handoff" ->
           \E q \in Parked :
              /\ pc' = [pc EXCEPT ![p] = "idle", ![q] = "idle"]
              /\ loc' = [loc EXCEPT ![p] = [loc[p] EXCEPT !.ok = TRUE, !.how = how],
                                    ![q] = [loc[q] EXCEPT !.v = loc[p].v, !.ok = TRUE]]
              /\ lims' = [lims EXCEPT ![1].readers = @ - 1]
      [] how = "enqueue" ->
           /\ pc' = [pc EXCEPT ![p] = "idle"]
           /\ loc' = [loc EXCEPT ![p] = [loc[p] EXCEPT !.ok = TRUE, !.how = how]]
           /\ lims' = [lims EXCEPT ![1].readers = @ - 1,
                                   ![1].signals = Append(@, loc[p].v)]
      [] how \in {"drop", "ctx", "closed"} ->
           /\ pc' = [pc EXCEPT ![p] = "idle"]
           /\ lims' = [lims EXCEPT ![1].readers = @ - 1]
           /\ loc' = [loc EXCEPT ![p].how = how]

\* the rest of Send and of SendWithContext: the closed check, the select,
\* RUnlock
SgSend(p) ==
    /\ pc[p] = "send"
    /\ IF lims[1].closed THEN SgDeliver(p, "closed")
       ELSE IF loc[p].kind = "Send" THEN SgDeliver(p, SendSelect(lims[1], Parked # {}))
       ELSE \E how \in SendWithContextSelect(lims[1], Parked # {}, loc[p].canceled) :
               SgDeliver(p, how)
    /\ UNCHANGED <<gCalls, outsideSignal>>

\* s.mu.Lock() of Close
SgLock(p) ==
    /\ pc[p] = "idle"
    /\ gCalls < SgMaxOps
    /\ ~lims[1].writer /\ lims[1].readers = 0
    /\ lims' = [lims EXCEPT ![1].writer = TRUE]
    /\ pc' = [pc EXCEPT ![p] = "close"]
    /\ loc' = [loc EXCEPT ![p] = SgLoc("Close", 0, FALSE)]
    /\ gCalls' = gCalls + 1
    /\ UNCHANGED outsideSignal

\* the rest of Close: the flag, close(s.signals), which wakes every parked
\* receiver with (zero, false), Unlock
SgClose(p) ==
    /\ pc[p] = "close"
    /\ LET r == CloseBody(lims[1])
       IN  IF r.panic
           THEN /\ pc' = [pc EXCEPT ![p] = "panic"]
                /\ UNCHANGED <<lims, loc>>
           ELSE /\ lims' = [lims EXCEPT ![1] = [r.sig EXCEPT !.writer = FALSE]]
                /\ pc' = [q \in Procs |->
                            IF q = p \/ (q \in Parked /\ r.sig.chClosed) THEN "idle" ELSE pc[q]]
                /\ loc' = [q \in Procs |->
                             IF q \in Parked /\ r.sig.chClosed
                             THEN [loc[q] EXCEPT !.v = 0, !.ok = FALSE]
                             ELSE IF q = p
                             THEN [loc[q] EXCEPT !.how = IF lims[1].closed THEN "closed"
                                                         ELSE "close"]
                             ELSE loc[q]]
    /\ UNCHANGED <<gCalls, outsideSignal>>

\* s.Next(): `signal, ok := <-s.signals`; a buffered signal, else (zero,
\* false) of a closed channel, else the goroutine parks on the channel
SgNext(p) ==
    /\ pc[p] = "idle"
    /\ gCalls < SgMaxOps
    /\ gCalls' = gCalls + 1
    /\ IF lims[1].signals # <<>>
       THEN /\ lims' = [lims EXCEPT ![1].signals = Tail(@)]
            /\ loc' = [loc EXCEPT ![p] = [SgLoc("Next", Head(lims[1].signals), FALSE)
                                            EXCEPT !.ok = TRUE]]
            /\ UNCHANGED pc
       ELSE IF lims[1].chClosed
       THEN /\ loc' = [loc EXCEPT ![p] = SgLoc("Next", 0, FALSE)]
            /\ UNCHANGED <<lims, pc>>
       ELSE /\ loc' = [loc EXCEPT ![p] = SgLoc("Next", 0, FALSE)]
            /\ pc' = [pc EXCEPT ![p] = "next"]
            /\ UNCHANGED lims
    /\ UNCHANGED outsideSignal

NextSignal ==
    \/ \E p \in Procs, op \in {"Send", "SendWithContext"}, canceled \in BOOLEAN :
          (op = "Send" => ~canceled) /\ SgRLock(p, op, canceled)
    \/ \E p \in Procs : SgSend(p)
    \/ \E p \in Procs : SgLock(p)
    \/ \E p \in Procs : SgClose(p)
    \/ \E p \in Procs : SgNext(p)

SpecSignal == InitSignal /\ [][NextSignal]_vars


\* goroutine p's send leaves the select and returns in this step
SendReturns(p) == pc[p] = "send" /\ pc'[p] # "send"

\* goroutine p's Close does its work and returns in this step
CloseReturns(p) == pc[p] = "close" /\ pc'[p] # "close"

\* goroutine p calls Next in this step
CallsNext(p) == gCalls' # gCalls /\ loc'[p].kind = "Next" /\ loc'[p].n = gCalls'

\* nothing is delivered in this step: the buffer and every other goroutine
\* are as before
NothingDelivered(p) ==
    /\ lims'[1].signals = lims[1].signals
    /\ \A q \in Procs \ {p} : pc'[q] = pc[q] /\ loc'[q] = loc[q]

(* C28: under every interleaving of Send, SendWithContext, Close and Next   *)
(* the JobSignal never panics (no send on the closed channel, no second     *)
(* close); a send that finds the signal closed is dropped; Close on a       *)
(* closed signal changes nothing; and Next on a closed signal never blocks: *)
(* it returns the buffered signals in order and then (zero value, false).   *)
C28_JobSignalNeverPanics ==
    /\ [](\A p \in Procs : pc[p] # "panic")
    /\ [](lims[1].chClosed => (lims[1].closed /\ Parked = {}))
    /\ [][\A p \in Procs :
            /\ (SendReturns(p) /\ lims[1].closed)
                 => (NothingDelivered(p) /\ ~loc'[p].ok /\ pc'[p] = "idle")
            /\ (CloseReturns(p) /\ lims[1].closed)
                 => (NothingDelivered(p) /\ pc'[p] = "idle"
                     /\ lims'[1] = [lims[1] EXCEPT !.writer = FALSE])
            /\ CloseReturns(p) => (lims'[1].closed /\ lims'[1].chClosed)
            /\ (CallsNext(p) /\ lims[1].chClosed)
                 => /\ pc'[p] = "idle"
                    /\ IF lims[1].signals # <<>>
                       THEN /\ loc'[p].ok /\ loc'[p].v = Head(lims[1].signals)
                            /\ lims'[1].signals = Tail(lims[1].signals)
                       ELSE ~loc'[p].ok /\ loc'[p].v = 0]_vars

\* the signal is closed; one goroutine's Send found it closed and was
\* dropped, the other's Next returned (zero, false)
C28_Witness ==
    /\ lims[1].closed
    /\ \E p, q \in Procs :
          /\ p # q
          /\ pc[p] = "idle" /\ loc[p].kind = "Send" /\ loc[p].how = "closed"
          /\ pc[q] = "idle" /\ loc[q].kind = "Next" /\ ~loc[q].ok /\ loc[q].v = 0

\* goroutine p's SendWithContext, called with a cancelled context, returns
CanceledSendReturns(p) ==
    SendReturns(p) /\ loc[p].kind = "SendWithContext" /\ loc[p].canceled

(* C29: SendWithContext called with an already cancelled context never      *)
(* enqueues the signal, whether the buffer is full or has free space: the   *)
(* buffer is unchanged by the call and no receiver gets the signal.         *)
C29_CanceledSendNeverEnqueues ==
    [][\A p \in Procs :
         CanceledSendReturns(p) => (NothingDelivered(p) /\ ~loc'[p].ok)]_vars

\* what holds instead: the call returns without blocking or panicking; it
\* enqueues nothing when the buffer is full and no receiver waits, or when
\* the signal is closed; otherwise it enqueues its own signal at the end of
\* the buffer, hands it to a waiting receiver, or drops it
C29_UnlessChannelIsReady ==
    [][\A p \in Procs :
         CanceledSendReturns(p) =>
            /\ pc'[p] = "idle"
            /\ (lims[1].closed \/ (Len(lims[1].signals) >= lims[1].cap /\ Parked = {}))
                  => (NothingDelivered(p) /\ ~loc'[p].ok)
            /\ \/ NothingDelivered(p) /\ ~loc'[p].ok
               \/ /\ lims'[1].signals = Append(lims[1].signals, loc[p].v)
                  /\ Len(lims[1].signals) < lims[1].cap
               \/ \E q \in Parked : loc'[q].v = loc[p].v /\ loc'[q].ok /\ pc'[q] = "idle"]_vars

\* a SendWithContext called with a cancelled context has put its signal into
\* the buffer
C29_Witness ==
    \E p \in Procs :
       /\ pc[p] = "idle"
       /\ loc[p].kind = "SendWithContext" /\ loc[p].canceled /\ loc[p].how = "enqueue"
       /\ Len(lims[1].signals) > 0
       /\ lims[1].signals[Len(lims[1].signals)] = loc[p].v

----------------------------------------------------------------------------
(* Specification SpecScheduler: the goroutines of Procs call Start, Stop    *)
(* and Subscribe on one scheduler, a BrokerScheduler or a                    *)
(* SequentialScheduler, kept in lims[1]: isRunning, the number of           *)
(* subscriptions, the identity of the current shutdownCh (every earlier one *)
(* is closed) and the run whose context runCancel cancels.  A goroutine in  *)
(* Start runs the loop: pc[p] is "loop" in the select, "tick" in the ticker *)
(* case, "exiting" between the return and the deferred function.  loc[p]    *)
(* holds the locals of its Start; each Start's context may be cancelled at  *)
(* any moment.  gLog counts the Stop calls that found the scheduler         *)
(* running.                                                                  *)

SchMaxOps == 4          \* Start, Stop and Subscribe calls made, all told

ErrSchedulerAlreadyRunning == "scheduler is already running"

\* NewBrokerScheduler(cfg) / NewSequentialScheduler(cfg)
NewScheduler(kind) ==
    [kind |-> kind, isRunning |-> FALSE, subscriptions |-> 0, shutdownCh |-> 1, runCancel |-> 0]

\* the first critical section of Start, for the run numbered run: the
\* scheduler afterwards and whether Start goes on to the loop
StartLocked(s, run) ==
    IF s.isRunning THEN [ok |-> FALSE, sch |-> s]
    ELSE [ok |-> TRUE,
          sch |-> [s EXCEPT !.isRunning = TRUE,
                            !.runCancel = IF s.kind = "sequential" THEN run ELSE @]]

\* the critical section of Stop: the scheduler afterwards and the run whose
\* context it cancelled (0 for none)
StopLocked(s) ==
    IF ~s.isRunning THEN [sch |-> s, cancelled |-> 0]
    ELSE [sch |-> [s EXCEPT !.isRunning = FALSE, !.subscriptions = 0,
                            !.shutdownCh = IF s.kind = "broker" THEN @ + 1 ELSE @],
          cancelled |-> IF s.kind = "sequential" THEN s.runCancel ELSE 0]

\* the cases of the loop's select that are ready for the goroutine with
\* locals l; the ticker may have fired at any time
LoopSelect(s, l) ==
    {"tick"}
    \cup (IF l.ctxDone \/ l.canceled THEN {"ctx"} ELSE {})
    \cup (IF s.kind = "broker" /\ l.shutdownCh < s.shutdownCh THEN {"shutdown"} ELSE {})

\* the goroutines whose run loop is active
RunLoops == {p \in Procs : pc[p] \in {"loop", "tick"}}

outsideScheduler ==
    <<now, wake, gAdmits, gWaits, winGhost, scope, clientLimit, hostMap, factory, gShadow,
      gHostAdmits, gDiscarded, gAgree, adVars, clVars>>

InitScheduler ==
    /\ InitCommon
    /\ InitNoScope
    /\ InitNoClient
    /\ \E kind \in {"broker", "sequential"} : lims = <<NewScheduler(kind)>>

\* s.Start(ctx, signalFactory) up to the loop
SchStart(p) ==
    /\ pc[p] = "idle"
    /\ gCalls < SchMaxOps
    /\ gCalls' = gCalls + 1
    /\ LET r == StartLocked(lims[1], gCalls + 1)
       IN  /\ lims' = [lims EXCEPT ![1] = r.sch]
           /\ pc' = [pc EXCEPT ![p] = IF r.ok THEN "loop" ELSE "idle"]
           /\ loc' = [loc EXCEPT ![p] =
                        [kind |-> "Start", run |-> gCalls + 1, shutdownCh |-> lims[1].shutdownCh,
                         ctxDone |-> FALSE, canceled |-> FALSE,
                         ret |-> IF r.ok THEN "" ELSE ErrSchedulerAlreadyRunning]]
    /\ UNCHANGED <<gLog, outsideScheduler>>

\* the loop's select takes one of its ready cases
SchSelect(p) ==
    /\ pc[p] = "loop"
    /\ \E c \in LoopSelect(lims[1], loc[p]) :
          pc' = [pc EXCEPT ![p] = IF c = "tick" THEN "tick" ELSE "exiting"]
    /\ UNCHANGED <<lims, loc, gCalls, gLog, outsideScheduler>>

\* case <-ticker.C: the signal is sent to the subscriptions
SchTick(p) ==
    /\ pc[p] = "tick"
    /\ pc' = [pc EXCEPT ![p] = "loop"]
    /\ UNCHANGED <<lims, loc, gCalls, gLog, outsideScheduler>>

\* the deferred function of Start: isRunning = false; Start returns nil
SchExit(p) ==
    /\ pc[p] = "exiting"
    /\ lims' = [lims EXCEPT ![1].isRunning = FALSE]
    /\ pc' = [pc EXCEPT ![p] = "idle"]
    /\ loc' = [loc EXCEPT ![p].ret = "nil"]
    /\ UNCHANGED <<gCalls, gLog, outsideScheduler>>

\* s.Stop()
SchStop(p) ==
    /\ pc[p] = "idle"
    /\ gCalls < SchMaxOps
    /\ gCalls' = gCalls + 1
    /\ LET r == StopLocked(lims[1])
       IN  /\ lims' = [lims EXCEPT ![1] = r.sch]
           /\ loc' = [q \in Procs |->
                        IF q # p /\ pc[q] # "idle" /\ loc[q].run = r.cancelled
                        THEN [loc[q] EXCEPT !.canceled = TRUE] ELSE loc[q]]
           /\ gLog' = IF lims[1].isRunning THEN Append(gLog, "Stop") ELSE gLog
    /\ UNCHANGED <<pc, outsideScheduler>>

\* s.Subscribe()
SchSubscribe(p) ==
    /\ pc[p] = "idle"
    /\ gCalls < SchMaxOps
    /\ gCalls' = gCalls + 1
    /\ lims' = [lims EXCEPT ![1].subscriptions = @ + 1]
    /\ UNCHANGED <<pc, loc, gLog, outsideScheduler>>

\* the context given to goroutine p's Start is cancelled
SchCancel(p) ==
    /\ pc[p] \in {"loop", "tick"}
    /\ ~loc[p].ctxDone
    /\ loc' = [loc EXCEPT ![p].ctxDone = TRUE]
    /\ UNCHANGED <<lims, pc, gCalls, gLog, outsideScheduler>>

NextScheduler ==
    \/ \E p \in Procs : SchStart(p)
    \/ \E p \in Procs : SchSelect(p)
    \/ \E p \in Procs : SchTick(p)
    \/ \E p \in Procs : SchExit(p)
    \/ \E p \in Procs : SchStop(p)
    \/ \E p \in Procs : SchSubscribe(p)
    \/ \E p \in Procs : SchCancel(p)

SpecScheduler == InitScheduler /\ [][NextScheduler]_vars

\* goroutine p calls Start in this step
CallsStart(p) == gCalls' # gCalls /\ loc'[p].kind = "Start" /\ loc'[p].run = gCalls'

\* a Start called while a run loop is active is refused and touches nothing
StartWhileRunningRefused ==
    \A p \in Procs :
       (CallsStart(p) /\ RunLoops # {})
          => /\ loc'[p].ret = ErrSchedulerAlreadyRunning
             /\ pc' = pc /\ lims' = lims
             /\ \A q \in Procs \ {p} : loc'[q] = loc[q]

(* C30: at most one run loop of a scheduler is active at any time, for      *)
(* BrokerScheduler and for SequentialScheduler: Start called while a loop   *)
(* is running returns ErrSchedulerAlreadyRunning and leaves the running     *)
(* loop untouched, under every interleaving of Start, Stop and context      *)
(* cancellation, including a Stop followed at once by a new Start.          *)
C30_AtMostOneRunLoop ==
    /\ [](Cardinality(RunLoops) <= 1)
    /\ [][StartWhileRunningRefused]_vars

\* what holds instead: as long as no Stop has found the scheduler running,
\* at most one run loop is active and a Start called while one is active is
\* refused; and always, a Start that finds isRunning set is refused and
\* touches nothing
C30_UntilFirstStop ==
    /\ [](gLog = <<>> => Cardinality(RunLoops) <= 1)
    /\ [][gLog = <<>> => StartWhileRunningRefused]_vars
    /\ [][\A p \in Procs :
            (CallsStart(p) /\ lims[1].isRunning)
               => /\ loc'[p].ret = ErrSchedulerAlreadyRunning
                  /\ pc' = pc /\ lims' = lims]_vars

\* two run loops are active, and neither has been told to stop: no context
\* cancelled, no shutdown channel closed
C30_Witness ==
    /\ Cardinality(RunLoops) = 2
    /\ \A p \in RunLoops : LoopSelect(lims[1], loc[p]) = {"tick"}

----------------------------------------------------------------------------
(* Specification SpecBroadcast: the goroutines of Procs call Subscribe,     *)
(* Start, Stop and, on the subscriptions, Next.  lims[1] is the scheduler   *)
(* (its subscriptions are the positions of their JobSignals in lims), with  *)
(* two fields for its surroundings: `produced`, the number of signals the   *)
(* signal factory has returned (it returns 1, 2, ...), and `senders`, the   *)
(* goroutines a BrokerScheduler's ticks have spawned that have not yet run  *)
(* their Send.  Each JobSignal is the buffer, its capacity and the closed   *)
(* flag; its operations are atomic.  gLog lists the signals the subscribers *)
(* received, in the order of their receipt; gAgree tells whether so far at  *)
(* most one run loop was active at a time.                                   *)

BrMaxOps == 4           \* Subscribe, Start and Stop calls made, all told
BrMaxTicks == 2         \* signals the factory produces
BrCap == 1              \* largest Config.BufferSize (at least 1)
BrMaxSubs == 2          \* subscriptions made

\* NewBrokerScheduler(cfg) / NewSequentialScheduler(cfg), with the factory
\* and the spawned senders at rest
NewBroadcaster(kind, buffer) ==
    [kind |-> kind, isRunning |-> FALSE, subscriptions |-> <<>>, shutdownCh |-> 1,
     runCancel |-> 0, buffer |-> buffer, produced |-> 0, senders |-> {}]

\* NewJobSignal(id, bufCap), as a subscription
NewSubscription(bufCap) == [kind |-> "signal", signals |-> <<>>, cap |-> bufCap, closed |-> FALSE]

\* JobSignal.Send(v) on signal g: dropped when closed or full
SignalSend(g, v) ==
    IF g.closed \/ Len(g.signals) >= g.cap THEN g
    ELSE [g EXCEPT !.signals = Append(@, v)]

\* the heap after Send(v) on each of the signals at the positions subs
SendToAll(heap, subs, v) ==
    [i \in DOMAIN heap |->
        IF \E k \in DOMAIN subs : subs[k] = i THEN SignalSend(heap[i], v) ELSE heap[i]]

\* the heap after `if !sub.IsClosed() { sub.Close() }` on each of subs
CloseAll(heap, subs) ==
    [i \in DOMAIN heap |->
        IF \E k \in DOMAIN subs : subs[k] = i THEN [heap[i] EXCEPT !.closed = TRUE] ELSE heap[i]]

\* the critical section of Stop: the scheduler afterwards, the run whose
\* context it cancelled (0 for none), and the subscriptions it will close
StopCritical(s) ==
    IF ~s.isRunning THEN [sch |-> s, cancelled |-> 0, subsToClose |-> <<>>]
    ELSE [sch |-> [s EXCEPT !.isRunning = FALSE, !.subscriptions = <<>>,
                            !.shutdownCh = IF s.kind = "broker" THEN @ + 1 ELSE @],
          cancelled |-> IF s.kind = "sequential" THEN s.runCancel ELSE 0,
          subsToClose |-> s.subscriptions]

\* the positions of the JobSignals in the heap
Subscriptions == 2..Len(lims)

outsideBroadcast ==
    <<now, wake, gAdmits, gWaits, winGhost, scope, clientLimit, hostMap, factory, gShadow,
      gHostAdmits, gDiscarded, adVars, clVars>>

InitBroadcast ==
    /\ InitCommon
    /\ InitNoScope
    /\ InitNoClient
    /\ \E kind \in {"broker", "sequential"}, c \in 1..BrCap : lims = <<NewBroadcaster(kind, c)>>

\* s.Subscribe()
BrSubscribe(p) ==
    /\ pc[p] = "idle"
    /\ gCalls < BrMaxOps
    /\ Len(lims) <= BrMaxSubs
    /\ gCalls' = gCalls + 1
    /\ lims' = Append([lims EXCEPT ![1].subscriptions = Append(@, Len(lims) + 1)],
                      NewSubscription(lims[1].buffer))
    /\ loc' = [loc EXCEPT ![p] = NoLoc]
    /\ UNCHANGED <<pc, gLog, gAgree, outsideBroadcast>>

\* s.Start(ctx, signalFactory) up to the loop
BrStart(p) ==
    /\ pc[p] = "idle"
    /\ gCalls < BrMaxOps
    /\ gCalls' = gCalls + 1
    /\ LET r == StartLocked(lims[1], gCalls + 1)
       IN  /\ lims' = [lims EXCEPT ![1] = r.sch]
           /\ pc' = [pc EXCEPT ![p] = IF r.ok THEN "loop" ELSE "idle"]
           /\ loc' = [loc EXCEPT ![p] =
                        IF r.ok
                        THEN [kind |-> "Start", run |-> gCalls + 1,
                              shutdownCh |-> lims[1].shutdownCh, ctxDone |-> FALSE,
                              canceled |-> FALSE, sig |-> 0, subs |-> <<>>, ret |-> ""]
                        ELSE [kind |-> "Start", ret |-> ErrSchedulerAlreadyRunning]]
           /\ gAgree' = (gAgree /\ (r.ok => RunLoops = {}))
    /\ UNCHANGED <<gLog, outsideBroadcast>>

\* the loop's select takes a ready case; on a tick the factory is called and
\* the subscriptions are copied under the read lock
BrSelect(p) ==
    /\ pc[p] = "loop"
    /\ \E c \in LoopSelect(lims[1], loc[p]) :
          IF c = "tick"
          THEN /\ lims[1].produced < BrMaxTicks
               /\ lims' = [lims EXCEPT ![1].produced = @ + 1]
               /\ loc' = [loc EXCEPT ![p].sig = lims[1].produced + 1,
                                     ![p].subs = lims[1].subscriptions]
               /\ pc' = [pc EXCEPT ![p] = "tick"]
          ELSE /\ pc' = [pc EXCEPT ![p] = "exiting"]
               /\ UNCHANGED <<lims, loc>>
    /\ UNCHANGED <<gCalls, gLog, gAgree, outsideBroadcast>>

\* the rest of the ticker case: the SequentialScheduler sends to each
\* subscription in turn, the BrokerScheduler spawns a goroutine for each
BrTick(p) ==
    /\ pc[p] = "tick"
    /\ lims' = IF lims[1].kind = "sequential"
               THEN SendToAll(lims, loc[p].subs, loc[p].sig)
               ELSE [lims EXCEPT ![1].senders =
                       @ \cup {[sub |-> loc[p].subs[k], v |-> loc[p].sig] :
                                 k \in DOMAIN loc[p].subs}]
    /\ pc' = [pc EXCEPT ![p] = "loop"]
    /\ loc' = [loc EXCEPT ![p].sig = 0, ![p].subs = <<>>]
    /\ UNCHANGED <<gCalls, gLog, gAgree, outsideBroadcast>>

\* a goroutine spawned by a BrokerScheduler's tick runs: subscription.Send
BrSender(x) ==
    /\ x \in lims[1].senders
    /\ lims' = [lims EXCEPT ![1].senders = @ \ {x}, ![x.sub] = SignalSend(@, x.v)]
    /\ UNCHANGED <<pc, loc, gCalls, gLog, gAgree, outsideBroadcast>>

\* the deferred function of Start: isRunning = false; Start returns nil
BrExit(p) ==
    /\ pc[p] = "exiting"
    /\ lims' = [lims EXCEPT ![1].isRunning = FALSE]
    /\ pc' = [pc EXCEPT ![p] = "idle"]
    /\ loc' = [loc EXCEPT ![p] = [kind |-> "Start", ret |-> "nil"]]
    /\ UNCHANGED <<gCalls, gLog, gAgree, outsideBroadcast>>

\* s.Stop(), its critical section; `registered` keeps the subscriptions the
\* call found
BrStop(p) ==
    /\ pc[p] = "idle"
    /\ gCalls < BrMaxOps
    /\ gCalls' = gCalls + 1
    /\ LET r == StopCritical(lims[1])
       IN  /\ lims' = [lims EXCEPT ![1] = r.sch]
           /\ loc' = [q \in Procs |->
                        IF q = p
                        THEN [kind |-> "Stop", subsToClose |-> r.subsToClose,
                              registered |-> lims[1].subscriptions,
                              found |-> lims[1].isRunning]
                        ELSE IF pc[q] \in {"loop", "tick"} /\ loc[q].run = r.cancelled
                        THEN [loc[q] EXCEPT !.canceled = TRUE] ELSE loc[q]]
    /\ pc' = [pc EXCEPT ![p] = "stopping"]
    /\ UNCHANGED <<gLog, gAgree, outsideBroadcast>>

\* the rest of Stop: it closes the subscriptions it copied and returns nil
BrStopClose(p) ==
    /\ pc[p] = "stopping"
    /\ lims' = CloseAll(lims, loc[p].subsToClose)
    /\ pc' = [pc EXCEPT ![p] = "idle"]
    /\ UNCHANGED <<loc, gCalls, gLog, gAgree, outsideBroadcast>>

\* goroutine p receives from subscription sub, or learns that it is closed
BrReceive(p, sub) ==
    IF lims[sub].signals # <<>>
    THEN /\ lims' = [lims EXCEPT ![sub].signals = Tail(@)]
         /\ gLog' = Append(gLog, [sub |-> sub, v |-> Head(lims[sub].signals)])
         /\ loc' = [loc EXCEPT ![p] = [kind |-> "Next", sub |-> sub, ok |-> TRUE]]
         /\ pc' = [pc EXCEPT ![p] = "idle"]
    ELSE IF lims[sub].closed
    THEN /\ loc' = [loc EXCEPT ![p] = [kind |-> "Next", sub |-> sub, ok |-> FALSE]]
         /\ pc' = [pc EXCEPT ![p] = "idle"]
         /\ UNCHANGED <<lims, gLog>>
    ELSE /\ loc' = [loc EXCEPT ![p] = [kind |-> "Next", sub |-> sub, ok |-> FALSE]]
         /\ pc' = [pc EXCEPT ![p] = "next"]
         /\ UNCHANGED <<lims, gLog>>

\* sub.Next() is called
BrNext(p, sub) ==
    /\ pc[p] = "idle"
    /\ BrReceive(p, sub)
    /\ UNCHANGED <<gCalls, gAgree, outsideBroadcast>>

\* a receiver blocked in Next is released by a signal or by Close
BrNextWake(p) ==
    /\ pc[p] = "next"
    /\ lims[loc[p].sub].signals # <<>> \/ lims[loc[p].sub].closed
    /\ BrReceive(p, loc[p].sub)
    /\ UNCHANGED <<gCalls, gAgree, outsideBroadcast>>

\* the context given to goroutine p's Start is cancelled
BrCancel(p) ==
    /\ pc[p] \in {"loop", "tick"}
    /\ ~loc[p].ctxDone
    /\ loc' = [loc EXCEPT ![p].ctxDone = TRUE]
    /\ UNCHANGED <<lims, pc, gCalls, gLog, gAgree, outsideBroadcast>>

NextBroadcast ==
    \/ \E p \in Procs : BrSubscribe(p)
    \/ \E p \in Procs : BrStart(p)
    \/ \E p \in Procs : BrSelect(p)
    \/ \E p \in Procs : BrTick(p)
    \/ \E x \in lims[1].senders : BrSender(x)
    \/ \E p \in Procs : BrExit(p)
    \/ \E p \in Procs : BrStop(p)
    \/ \E p \in Procs : BrStopClose(p)
    \/ \E p \in Procs, sub \in Subscriptions : BrNext(p, sub)
    \/ \E p \in Procs : BrNextWake(p)
    \/ \E p \in Procs : BrCancel(p)

SpecBroadcast == InitBroadcast /\ [][NextBroadcast]_vars


\* goroutine p's Stop leaves its critical section / returns in this step
StopUnlocks(p) == pc[p] = "idle" /\ pc'[p] = "stopping"
StopReturns(p) == pc[p] = "stopping" /\ pc'[p] = "idle"

\* the run loop of goroutine q has been told to stop: a case of its select
\* other than the ticker's is ready
ToldToStop(s, l) == LoopSelect(s, l) # {"tick"}

(* C31: when Stop returns, every subscription that was registered with the  *)
(* scheduler is closed; Stop leaves the subscription list empty; and Stop   *)
(* tells every running loop to stop, so that Start returns and subscribers  *)
(* blocked in Next are released.  This in every state in which Stop is      *)
(* called.                                                                   *)
C31_StopClosesAndStops ==
    [][\A p \in Procs :
         /\ StopUnlocks(p) =>
               /\ lims'[1].subscriptions = <<>>
               /\ \A q \in RunLoops : ToldToStop(lims'[1], loc'[q])
         /\ StopReturns(p) =>
               \A k \in DOMAIN loc[p].registered : lims'[loc[p].registered[k]].closed]_vars

\* what holds instead: a Stop that finds isRunning set empties the list and
\* has closed every subscription it found by the time it returns, and it
\* tells the running loop to stop if no two loops were ever active together;
\* a Stop that finds isRunning clear changes nothing
C31_WhenRunning ==
    [][\A p \in Procs :
         /\ (StopUnlocks(p) /\ lims[1].isRunning) =>
               /\ lims'[1].subscriptions = <<>>
               /\ gAgree => \A q \in RunLoops : ToldToStop(lims'[1], loc'[q])
         /\ (StopUnlocks(p) /\ ~lims[1].isRunning) =>
               /\ lims' = lims
               /\ \A q \in Procs \ {p} : loc'[q] = loc[q]
         /\ (StopReturns(p) /\ loc[p].found) =>
               \A k \in DOMAIN loc[p].registered : lims'[loc[p].registered[k]].closed
         /\ (StopReturns(p) /\ ~loc[p].found) => lims' = lims]_vars

\* Stop has returned, and a subscription it found registered is still open,
\* with a subscriber blocked in Next on it
C31_Witness ==
    \E p, q \in Procs :
       /\ pc[p] = "idle" /\ loc[p].kind = "Stop"
       /\ pc[q] = "next"
       /\ \E k \in DOMAIN loc[p].registered : loc[p].registered[k] = loc[q].sub
       /\ ~lims[loc[q].sub].closed
       /\ lims[loc[q].sub].signals = <<>>


\* the pairs of receipts of one subscriber, the earlier first
ReceiptPairs ==
    {<<i, j>> \in (1..Len(gLog)) \X (1..Len(gLog)) : i < j /\ gLog[i].sub = gLog[j].sub}

(* C32: a subscriber receives the scheduler's signals in the order in which *)
(* the signal factory produced them, each at most once, for both            *)
(* schedulers: of two signals one subscriber received, the earlier received *)
(* was produced earlier.                                                     *)
C32_OrderedDelivery ==
    \A x \in ReceiptPairs : gLog[x[1]].v < gLog[x[2]].v

\* what holds instead: no subscriber receives a signal twice; and the
\* subscribers of a SequentialScheduler whose run loops were never active
\* two at a time receive in the order of production
C32_SequentialOneLoop ==
    /\ \A x \in ReceiptPairs : gLog[x[1]].v # gLog[x[2]].v
    /\ (lims[1].kind = "sequential" /\ gAgree) => C32_OrderedDelivery

\* a subscriber has received a signal before one that was produced earlier
C32_Witness ==
    \E x \in ReceiptPairs : gLog[x[1]].v > gLog[x[2]].v

----------------------------------------------------------------------------
(* Claims about the sleep of AdaptiveRateLimiter.Wait (SpecCtx). *)

\* the Wait on the adaptive limiter moves on in this step
AdWaitSteps(pos) ==
    /\ call.pc = pos /\ call.kind = "Wait" /\ call.target = "adaptive"
    /\ call' # call

\* the base limiter is left as it was and has admitted nothing for this call
BaseNotConsulted ==
    /\ lims' = lims /\ lims[1] = call.before
    /\ gAdmits' = call.admits0

\* C33: AdaptiveRateLimiter.Wait called while now < backoffUntil does not
\* call the base limiter's Wait before backoffUntil has passed; a Wait woken
\* from that sleep by its context returns the context's error and the base
\* limiter is never consulted; with no active backoff it goes on to the base
\* limiter's Wait at once, without sleeping.
C33_WaitSleepsOutBackoff ==
    [][ /\ AdWaitSteps("baseWait") => now >= ad.backoffUntil
        /\ (AdWaitSteps("adWait") /\ now < ad.backoffUntil)
              => (call'.pc = "adSleep" /\ call'.wake = ad.backoffUntil
                  /\ BaseNotConsulted)
        /\ (AdWaitSteps("adSleep") /\ call'.pc = "baseWait")
              => (now >= ad.backoffUntil /\ BaseNotConsulted)
        /\ (AdWaitSteps("adSleep") /\ call.woken = "ctx")
              => (call'.pc = "idle" /\ result'.err.kind = CtxErr
                  /\ BaseNotConsulted)
        /\ (AdWaitSteps("adWait") /\ now >= ad.backoffUntil)
              => (call'.pc = "baseWait" /\ now' = now /\ BaseNotConsulted)
      ]_vars

\* C33 witness: a Wait on the adaptive limiter that met an active backoff
\* with a live context has been woken by the context during its sleep and
\* has returned the context's error, the backoff still running and the base
\* limiter having admitted nothing.
C33_Witness ==
    /\ call.pc = "idle" /\ gObsCount = 1
    /\ result.err.kind = CtxErr /\ result.err.call = "Wait"
    /\ result.err.target = "adaptive" /\ ~result.err.ended0
    /\ now < ad.backoffUntil
    /\ gCalls = 1 /\ gAdmits = 0

----------------------------------------------------------------------------
(* Specification SpecFrame: nil responses and responses of three statuses,  *)
(* with and without Retry-After, X-RateLimit-Reset, X-RateLimit-Limit and   *)
(* X-RateLimit-Remaining, are observed by one AdaptiveRateLimiter while the *)
(* clock advances.  gObs keeps the most recent response and the limiter as  *)
(* the observation found it.                                                *)

FrMaxObs == 2           \* ObserveResponse calls made

\* responses that are no 429, with an X-RateLimit-Reset (absent, a near
\* instant), an X-RateLimit-Limit and an X-RateLimit-Remaining (absent, zero
\* written in two ways, non-zero, unparseable); a 429 with and without
\* Retry-After; a nil response
FrResponses ==
    {Response(st, <<>>, xr, <<>>, xl, <<>>, rem) :
        st \in {200, 500},
        xr \in {<<>>, <<"1">>},
        xl \in {<<>>, <<"5">>},
        rem \in {<<>>, <<"0">>, <<"0", "0">>, <<"3">>, <<"x">>}}
    \cup {Response(StatusTooManyRequests, ra, <<>>, <<>>, <<>>, <<>>, <<>>) :
            ra \in {<<>>, <<"1">>}}
    \cup {NilResponse}

\* a.ObserveResponse(resp), atomic under the write lock (a nil response
\* returns before the lock)
FrObserve(resp) ==
    /\ gObsCount < FrMaxObs
    /\ ad' = ObserveResponse(ad, resp, now)
    /\ gObsCount' = gObsCount + 1
    /\ gObs' = [t |-> now, shape |-> IF resp = NilResponse THEN "nil" ELSE "response",
                n |-> 0, resp |-> resp, prev |-> ad]
    /\ UNCHANGED <<now, limVars, procVars, gCalls, gAdmits, adLoc, ret, outsideAdaptive>>

NextFrame ==
    \/ TickAdaptive
    \/ \E resp \in FrResponses : FrObserve(resp)

SpecFrame == InitAdaptive /\ [][NextFrame]_vars

\* resp carries X-RateLimit-Remaining = 0 together with an X-RateLimit-Reset
ZeroRemainingWithReset(resp) ==
    /\ resp.xRemaining # <<>>
    /\ Atoi(resp.xRemaining).ok /\ Atoi(resp.xRemaining).val = 0
    /\ resp.xReset # <<>>

\* resp is one of the responses said to leave backoffUntil alone
LeavesBackoffAlone(resp) ==
    /\ resp # NilResponse
    /\ resp.status # StatusTooManyRequests
    /\ ~ZeroRemainingWithReset(resp)

\* C34: ObserveResponse(nil) changes neither backoffUntil nor
\* lastObservedLimit; ObserveResponse of a response whose status is not 429
\* and which does not carry X-RateLimit-Remaining = 0 together with
\* X-RateLimit-Reset leaves backoffUntil unchanged, so that such a response
\* neither clears nor shortens a backoff that is active.
C34_ObserveLeavesBackoff ==
    [][ /\ (Observes /\ gObs'.resp = NilResponse)
              => ( /\ ad'.backoffUntil = ad.backoffUntil
                   /\ ad'.lastObservedLimit = ad.lastObservedLimit )
        /\ (Observes /\ LeavesBackoffAlone(gObs'.resp))
              => ( /\ ad'.backoffUntil = ad.backoffUntil
                   /\ InBackoff(ad.backoffUntil, now)
                         => InBackoff(ad'.backoffUntil, now') )
      ]_vars

\* C34 witness: during a backoff set by a 429 with Retry-After: 1, a 200
\* carrying a limit, a reset and a non-zero remaining was observed; the
\* backoff is as the 429 set it and still active.
C34_Witness ==
    /\ gObsCount = 2
    /\ gObs.resp = Response(200, <<>>, <<"1">>, <<>>, <<"5">>, <<>>, <<"3">>)
    /\ gObs.prev.backoffUntil = ad.backoffUntil
    /\ ad.backoffUntil = 1 + SecondTicks
    /\ InBackoff(ad.backoffUntil, now)
    /\ ad.lastObservedLimit = 5

----------------------------------------------------------------------------
(* Specification SpecFwLive: NumProcs goroutines call Wait on one           *)
(* FixedWindowRateLimiter of limit >= 1 (lims[1]), FwlMaxWaits calls all    *)
(* told, with contexts that never end, while the clock runs on without      *)
(* bound.  Wait compares instants by their differences only, so the         *)
(* instants (windowStart, the timers' wake) are kept as offsets from the    *)
(* present: `now` stays where it is and a tick moves them one tick into the *)
(* past, down to the oldest offset the comparisons tell apart.              *)

FwlMaxWaits == 3        \* Wait calls made

InitFwLive ==
    /\ InitCommon
    /\ InitNoScope
    /\ InitNoClient
    /\ \E limit \in 1..MaxBurst, window \in {0, WindowTicks} :
           lims = <<NewFixedWindowRateLimiter(limit, window, 0)>>

\* one tick passes
TickLive ==
    /\ lims' = [lims EXCEPT ![1].windowStart = Max(@ - 1, now - lims[1].window)]
    /\ wake' = [p \in Procs |-> Max(wake[p] - 1, now)]
    /\ UNCHANGED <<now, pc, ghostVars, outsidePrimitives>>

\* fw.Wait(ctx) is called
FwlWaitCall(p) ==
    /\ gWaits < FwlMaxWaits
    /\ FwWaitCall(p)

NextFwLive ==
    \/ TickLive
    \/ \E p \in Procs : FwlWaitCall(p)
    \/ \E p \in Procs : FwWaitSleep(p)
    \/ \E p \in Procs : FwWaitRecheck(p)

\* the clock keeps running, and a goroutine that can run does: it leaves the
\* critical section it is in, and it loops back once its timer has fired
FairFwLive ==
    /\ WF_vars(TickLive)
    /\ \A p \in Procs : WF_vars(FwWaitSleep(p)) /\ WF_vars(FwWaitRecheck(p))

SpecFwLive == InitFwLive /\ [][NextFwLive]_vars /\ FairFwLive

\* goroutine p is inside Wait
InWait(p) == pc[p] \in {"locked", "sleep"}

\* the window has not been reset since p started its timer
SameWindow(p) == lims[1].windowStart + lims[1].window <= wake[p]

\* C35: for a FixedWindowRateLimiter with limit >= 1, every one of finitely
\* many concurrent Wait callers whose context never ends is eventually
\* admitted (Wait returns nil) as time advances: a caller that finds the
\* window full, also again after its sleep, starts a timer and re-checks
\* when it fires, and its Wait returns by an admission only; a caller that
\* re-checks a window nobody has reset since it went to sleep, as a sole
\* blocked caller does, is admitted by that re-check.
C35_EveryWaiterAdmitted ==
    /\ \A p \in Procs : InWait(p) ~> (pc[p] = "idle")
    /\ [][\A p \in Procs :
            /\ (InWait(p) /\ pc'[p] = "idle") => gAdmits' = gAdmits + 1
            /\ (pc[p] = "sleep" /\ pc'[p] # "sleep")
                  => ( /\ now >= wake[p]
                       /\ SameWindow(p) => pc'[p] = "idle" )
            /\ (pc[p] = "locked" /\ pc'[p] # "locked")
                  => (pc'[p] = "sleep" /\ wake'[p] <= now + lims[1].window)
       ]_vars

\* C35 witness: two goroutines slept on the same full window of limit 1; one
\* has been admitted by its re-check, which reset the window, and the other
\* has re-checked, found the new window full and sleeps again.
C35_Witness ==
    /\ lims[1].limit = 1 /\ lims[1].window = WindowTicks
    /\ gWaits = 3 /\ gAdmits = 2 /\ gResets = 1
    /\ gCalls = 5
    /\ \E p \in Procs : pc[p] = "idle"
    /\ \E p \in Procs : pc[p] = "sleep" /\ wake[p] = now + WindowTicks

----------------------------------------------------------------------------
(* Specification SpecClientLive: the DoJSON calls of SpecClient under a     *)
(* clock that runs on without bound.  The client compares instants by their *)
(* differences only, so they are kept as offsets from the present: `now`    *)
(* stays where it is, a tick refills the bucket up to the present and moves *)
(* a pending timer and a pending backoffUntil one tick closer.  The clients *)
(* are those of SpecClient that have no rate-limit strategy.                *)

InitClientLive ==
    /\ InitClient
    /\ cfg.rl = NoStrategy

\* one tick passes
TickClientLive ==
    /\ lims' = [lims EXCEPT ![1] = [lims[1] EXCEPT !.tokens = TBAdvance(lims[1], now + 1),
                                                   !.last = now]]
    /\ ad' = [ad EXCEPT !.backoffUntil = IF @ > now THEN @ - 1 ELSE @]
    /\ call' = [call EXCEPT !.wake = IF @ > now THEN @ - 1 ELSE @]
    /\ UNCHANGED <<now, cfg, srv, ctxDone, result, gServerSeen, gIdleClosed, gClCalls,
                   gLastSent, gPlain, outsideClient>>

NextClientLive ==
    \/ TickClientLive
    \/ \E k \in 0..MaxFails, f \in ServerFinals : ClCall(k, f)
    \/ ClAttempt
    \/ ClRecv
    \/ ClCancel
    \/ ClBackoffDone
    \/ ClAbort

\* every send returns (the attempt goes on to the transport and the
\* transport answers), the clock keeps running and a timer that has fired
\* wakes the call, and a call woken by its context returns
FairClientLive ==
    /\ WF_vars(TickClientLive)
    /\ WF_vars(ClAttempt) /\ WF_vars(ClRecv)
    /\ WF_vars(ClBackoffDone) /\ WF_vars(ClAbort)

SpecClientLive == InitClientLive /\ [][NextClientLive]_vars /\ FairClientLive

\* the state of the call in the state machine of DoJSON; the retry decision
\* is taken within the step that ends an attempt
DoJSONState(c) ==
    CASE c.pc = "idle" -> "Idle"
      [] c.pc \in {"attempt", "inflight"} -> "Sending"
      [] c.pc \in {"backoff", "ctxWoken"} -> "Backoff"

\* the terminal state a returned (response, error) pair stands for
TerminalState(res) ==
    CASE res.err.kind = "nil" /\ res.resp # NilResponse -> "Success"
      [] res.err.kind = "ErrorResponse" /\ res.resp = NilResponse -> "Failed"
      [] res.err.kind = CtxErr /\ res.resp = NilResponse -> "Aborted"
      [] OTHER -> "none"

\* the call moves from state s to state t in this step
Moves(s, t) == DoJSONState(call) = s /\ DoJSONState(call') = t

\* the transitions of a call
DoJSONTransitions ==
    \/ Moves("Idle", "Sending") /\ call'.i = 0 /\ call'.sent = 0
    \/ Moves("Sending", "Sending") /\ call'.i = call.i /\ call'.sent = call.sent + 1
    \/ Moves("Sending", "Idle") /\ TerminalState(result') \in {"Success", "Failed"}
    \/ Moves("Sending", "Backoff") /\ call'.i = call.i /\ call'.sent = call.sent
    \/ Moves("Sending", "Sending") /\ call'.i = call.i + 1 /\ call'.wake = call.wake
          /\ call'.pc = "attempt" /\ call'.sent = call.sent
    \/ Moves("Backoff", "Backoff") /\ call'.i = call.i /\ call'.sent = call.sent
    \/ Moves("Backoff", "Sending") /\ call'.i = call.i + 1 /\ call'.pc = "attempt"
          /\ call'.sent = call.sent
    \/ Moves("Backoff", "Idle") /\ TerminalState(result') = "Aborted"

----------------------------------------------------------------------------
(* Specification SpecEquiv: two client-scoped strategies of the same        *)
(* behavior over token buckets that start alike, one built with adaptive    *)
(* limiting and one without, receive the same Apply calls at the same       *)
(* instants from one caller each; no response is ever observed, and the     *)
(* contexts never end.  lims[1] is the bucket under the adaptive limiter,   *)
(* lims[2] the other one; wake[1] and wake[2] are the instants at which the *)
(* latest Apply of each returns; gLog keeps both results of every call.     *)

EqMaxCalls == 3         \* Apply calls made on each strategy
EqTicks == 3            \* how far the clock runs

\* rateLimitStrategy.Apply with behavior Wait at instant t, context alive:
\* s.adaptive.Allow(ctx) first when there is an adaptive limiter, its answer
\* dropped; then the adaptive limiter's Wait (the backoff, then the base's
\* Wait) or the scoped limiter's Wait.  `at` is the instant Apply returns.
ApplyWait(rl, a, base, t) ==
    LET first == IF rl.adaptive THEN AdaptiveAllow(a, base, t).lim ELSE base
        from == IF rl.adaptive /\ InBackoff(a.backoffUntil, t) THEN a.backoffUntil ELSE t
        w == TBWaitCtx(first, from, FALSE, "", -1)
    IN  [err |-> w.err, at |-> w.timeToAct, lim |-> w.lim]

\* rateLimitStrategy.Apply with either behavior, and the admissions it took
\* from the base limiter
ApplyBoth(rl, a, base, t) ==
    LET r == IF rl.behavior = "wait" THEN ApplyWait(rl, a, base, t)
             ELSE LET e == Apply(rl, a, base, t)
                  IN  [err |-> e.err, at |-> t, lim |-> e.lim]
    IN  [err |-> r.err, at |-> r.at, lim |-> r.lim,
         used |-> (TBAdvance(base, t) - TBAdvance(r.lim, t)) \div TokenUnit]

InitEquiv ==
    /\ InitCommon
    /\ InitNoScope
    /\ srv = NoServer
    /\ \E behavior \in {"wait", "error"}, b \in 0..MaxBurst :
          /\ cfg = [kind |-> "strategy", behavior |-> behavior, adaptive |-> TRUE,
                    limiter |-> "tb"]
          /\ lims = <<NewTokenBucketRateLimiter(b), NewTokenBucketRateLimiter(b)>>

\* the variables the two strategies leave alone
outsideEquiv ==
    <<pc, gAdmits, gWaits, winGhost, hostVars, adVars, cfg, srv, call, ctxDone, result,
      gServerSeen, gIdleClosed, gClCalls, gLastSent, gPlain>>

\* strategy.Apply(ctx, host) on both strategies, once both have returned
\* from the call before
EqApply ==
    /\ gCalls < EqMaxCalls
    /\ now >= wake[1] /\ now >= wake[2]
    /\ \E on \in {ApplyBoth(cfg, ad, lims[1], now)},
          off \in {ApplyBoth([cfg EXCEPT !.adaptive = FALSE], ad, lims[2], now)} :
           /\ lims' = <<on.lim, off.lim>>
           /\ wake' = [wake EXCEPT ![1] = on.at, ![2] = off.at]
           /\ gLog' = Append(gLog, [t |-> now,
                                    on |-> [err |-> on.err, at |-> on.at, used |-> on.used],
                                    off |-> [err |-> off.err, at |-> off.at,
                                             used |-> off.used]])
    /\ gCalls' = gCalls + 1
    /\ UNCHANGED <<now, outsideEquiv>>

\* the clock advances by one tick (bounded by EqTicks)
TickEquiv ==
    /\ now < EqTicks
    /\ now' = now + 1
    /\ UNCHANGED <<limVars, procVars, ghostVars, hostVars, adVars, clVars>>

NextEquiv ==
    \/ TickEquiv
    \/ EqApply

SpecEquiv == InitEquiv /\ [][NextEquiv]_vars

\* C37: enabling adaptive limiting (client scope) does not change admission
\* while no backoff is active: each successful Apply, with behavior Wait and
\* with behavior Error, consumes exactly one admission of the base limiter,
\* and for the same base limiter and the same calls, with no rate-limit
\* signal observed, the Apply results with adaptive on equal those with
\* adaptive off.
C37_AdaptiveOnEqualsOff ==
    \A i \in 1..Len(gLog) :
        /\ gLog[i].on.err = gLog[i].off.err
        /\ gLog[i].on.at = gLog[i].off.at
        /\ gLog[i].on.err = "" => gLog[i].on.used = 1
        /\ gLog[i].off.err = "" => gLog[i].off.used = 1

\* what the code keeps of C37: without the adaptive limiter a successful
\* Apply takes exactly one admission and a refused one none; with it a
\* successful Apply takes two when the bucket holds two and never fewer than
\* one, so it is never admitted earlier than without
C37_AdaptiveTakesTwo ==
    \A i \in 1..Len(gLog) :
        /\ gLog[i].off.used = (IF gLog[i].off.err = "" THEN 1 ELSE 0)
        /\ gLog[i].on.used \in 0..2
        /\ gLog[i].on.err = "" => gLog[i].on.used >= 1
        /\ (gLog[i].on.err = "" /\ cfg.behavior = "error") => gLog[i].on.used = 2
        /\ gLog[i].on.err = "" => (gLog[i].off.err = "" /\ gLog[i].off.at <= gLog[i].on.at)

\* C37 witness: the first Apply on fresh buckets of burst 1, behavior Error:
\* refused with adaptive on, its one token spent, and admitted with adaptive
\* off.
C37_Witness ==
    /\ cfg.behavior = "error"
    /\ lims[1].burst = 1
    /\ Len(gLog) = 1
    /\ gLog[1].on = [err |-> ErrRateLimitExceeded, at |-> 0, used |-> 1]
    /\ gLog[1].off = [err |-> "", at |-> 0, used |-> 1]

----------------------------------------------------------------------------
(* Claims about Wait under concurrent observations (SpecAdaptive). *)

\* the Wait of goroutine p returns nil in this step
WaitReturnsNil(p) ==
    /\ pc[p] \in {"adBase", "sleep"} /\ pc'[p] = "idle"
    /\ ret'[p] = "nil"

\* C38: AdaptiveRateLimiter.Wait never admits (returns nil) at a moment when
\* now < backoffUntil, also when a concurrent ObserveResponse sets or
\* extends the backoff while that Wait is sleeping out an earlier backoff or
\* is blocked in the base limiter.
C38_WaitNeverAdmitsInBackoff ==
    [][\A p \in AdCallers : WaitReturnsNil(p) => ~InBackoff(ad.backoffUntil, now)]_vars

\* what the code keeps of C38: a Wait goes on to the base limiter's Wait only
\* once the backoffUntil it read at its start has passed
C38_AfterTheBackoffRead ==
    \A p \in AdCallers : pc[p] = "adBase" => ~InBackoff(adLoc[p].backoffUntil, now)

\* C38 witness: the one Wait made has returned nil on a token it took at
\* once, later than the latest observation and before the backoffUntil in
\* force since then.
C38_Witness ==
    /\ gCalls = 1 /\ gObsCount = 2 /\ gAdmits = 1
    /\ \E p \in AdCallers : pc[p] = "idle" /\ ret[p] = "nil"
    /\ lims[1].last > gObs.t /\ lims[1].tokens >= 0
    /\ lims[1].last <= now /\ InBackoff(ad.backoffUntil, now)

----------------------------------------------------------------------------
(* Specification SpecCustom: the scoped limiter of a strategy built by      *)
(* CustomRateLimit(limiter, WithScope(RateLimitScopeHost)), where limiter   *)
(* is a token bucket (lims[1]): NumProcs goroutines call Allow and Wait for *)
(* the hosts while the clock advances.  gShadow keeps, per host, a bucket   *)
(* like the given one that is fed that host's calls only.                   *)

\* CustomRateLimit: the factory handed to buildRateLimitStrategy is
\* func() RateLimiter { return limiter }
InitCustom ==
    /\ InitCommon
    /\ InitNoClient
    /\ \E b \in 1..MaxBurst :
          /\ factory = [kind |-> "custom", burst |-> b, limiter |-> 1]
          /\ lims = <<NewTokenBucketRateLimiter(b)>>
          /\ gShadow = [h \in Hosts |-> NewTokenBucketRateLimiter(b)]
    /\ scope = "host"

NextCustom ==
    \/ TickHost
    \/ \E p \in Procs, h \in Hosts, k \in {"Allow", "Wait"} : HostLoad(p, h, k)
    \/ \E p \in Procs : HostLoadOrStore(p)
    \/ \E p \in Procs : LimiterUse(p)
    \/ \E p \in Procs : LimiterWaitDone(p)

SpecCustom == InitCustom /\ [][NextCustom]_vars

\* C39: a strategy built by CustomRateLimit(limiter, WithScope(
\* RateLimitScopeHost)) keeps hosts independent like the other host-scoped
\* strategies: every call for a host gets the answer a limiter fed only that
\* host's calls gives, so that admissions granted for host A do not reduce
\* what is admitted for a different host B.
C39_CustomKeepsHostsIndependent ==
    (scope = "host" /\ factory.kind = "custom") => gAgree

\* what the code does instead: every host is given the one limiter, and the
\* admissions of all hosts together stay within its one budget
C39_OneBudgetForAllHosts ==
    /\ \A h \in Hosts : hostMap[h] \in {0, factory.limiter}
    /\ Len(lims) = 1
    /\ (gHostAdmits["a"] + gHostAdmits["b"]) * TokenUnit
           <= factory.burst * TokenUnit + now

\* C39 witness: with no time elapsed host a has been admitted the whole
\* burst, and the first call for host b, an Allow, was refused.
C39_Witness ==
    /\ now = 0 /\ ~gAgree
    /\ hostMap["a"] = 1 /\ hostMap["b"] = 1
    /\ gHostAdmits["a"] = factory.burst /\ gHostAdmits["b"] = 0
    /\ gCalls = factory.burst + 1
    /\ \A p \in Procs : pc[p] = "idle"

----------------------------------------------------------------------------
(* Specification SpecStorage: one InMemoryStorage (lims[1]) of capacity     *)
(* 0..StMaxCap, or of the largest uint64, receives Add, Upsert, Replace,    *)
(* Remove, Clear and Count calls, each atomic under the storage's mutex.    *)
(* The Go map is a function whose domain is the set of stored keys; result  *)
(* keeps what the latest call returned.                                     *)

StMaxCap == 2           \* largest capacity explored, besides the largest uint64
StMaxOps == 4           \* calls made
StKeys == {"k1", "k2", "k3"}
StValues == {1, 2}

ErrNotFound == "element not found"
ErrAlreadyExists == "element already exists"
ErrCapacityExceeded == "homestorage capacity exceeded"

\* the largest uint64, at the width of the integers here
MaxUint == 2^IntBits - 1

\* make(map[string]T)
EmptyMap == [k \in {} |-> 0]

\* NewInMemoryStorage(WithCapacity(c))
NewInMemoryStorage(c) == [kind |-> "storage", storage |-> EmptyMap, limit |-> c]

\* m[key] = value
MapSet(m, key, value) ==
    [k \in DOMAIN m \cup {key} |-> IF k = key THEN value ELSE m[k]]

\* delete(m, key)
MapDelete(m, key) == [k \in DOMAIN m \ {key} |-> m[k]]

\* len(m)
MapLen(m) == Cardinality(DOMAIN m)

outsideStorage ==
    <<now, procVars, gAdmits, gWaits, gLog, winGhost, hostVars, adVars, cfg, srv, call,
      ctxDone, gServerSeen, gIdleClosed, gClCalls, gLastSent, gPlain>>

InitStorage ==
    /\ InitCommon
    /\ InitNoScope
    /\ InitNoClient
    /\ \E c \in (0..StMaxCap) \cup {MaxUint} : lims = <<NewInMemoryStorage(c)>>

\* the call op(key, value) returns err (and n, for Count) and leaves the map m
StReturn(op, key, err, n, m) ==
    /\ gCalls < StMaxOps
    /\ gCalls' = gCalls + 1
    /\ lims' = [lims EXCEPT ![1].storage = m]
    /\ result' = [resp |-> NilResponse,
                  err |-> [kind |-> err, op |-> op, key |-> key, n |-> n]]
    /\ UNCHANGED outsideStorage

\* i.Add(key, value): ErrCapacityExceeded when len(storage) >= int(limit),
\* ErrAlreadyExists when the key is stored, else store
Add(key, value) ==
    LET m == lims[1].storage
    IN  IF MapLen(m) >= WrapInt(lims[1].limit)
        THEN StReturn("Add", key, ErrCapacityExceeded, 0, m)
        ELSE IF key \in DOMAIN m
        THEN StReturn("Add", key, ErrAlreadyExists, 0, m)
        ELSE StReturn("Add", key, "nil", 0, MapSet(m, key, value))

\* i.Upsert(key, value): store
Upsert(key, value) ==
    StReturn("Upsert", key, "nil", 0, MapSet(lims[1].storage, key, value))

\* i.Replace(key, value): ErrNotFound when the key is not stored, else store
Replace(key, value) ==
    LET m == lims[1].storage
    IN  IF key \notin DOMAIN m THEN StReturn("Replace", key, ErrNotFound, 0, m)
        ELSE StReturn("Replace", key, "nil", 0, MapSet(m, key, value))

\* i.Remove(key): ErrNotFound when the key is not stored, else delete
Remove(key) ==
    LET m == lims[1].storage
    IN  IF key \notin DOMAIN m THEN StReturn("Remove", key, ErrNotFound, 0, m)
        ELSE StReturn("Remove", key, "nil", 0, MapDelete(m, key))

\* i.Clear(): a new empty map
Clear == StReturn("Clear", "", "nil", 0, EmptyMap)

\* i.Count(): uint64(len(storage))
Count ==
    StReturn("Count", "", "nil", MapLen(lims[1].storage), lims[1].storage)

NextStorage ==
    \/ \E key \in StKeys, value \in StValues : Add(key, value)
    \/ \E key \in StKeys, value \in StValues : Upsert(key, value)
    \/ \E key \in StKeys, value \in StValues : Replace(key, value)
    \/ \E key \in StKeys : Remove(key)
    \/ Clear
    \/ Count

SpecStorage == InitStorage /\ [][NextStorage]_vars

\* this step is a call of op
StCalls(op) == gCalls' = gCalls + 1 /\ result'.err.op = op

\* this step is an Add that returns an error
AddFails ==
    /\ StCalls("Add")
    /\ result'.err.kind \in {ErrAlreadyExists, ErrCapacityExceeded}

\* C40: for an InMemoryStorage with capacity C, Count() <= C holds after any
\* sequence of Add, Upsert, Replace, Remove and Clear; an Add that returns
\* ErrAlreadyExists or ErrCapacityExceeded leaves the stored keys and values
\* unchanged.
C40_CountWithinCapacity ==
    /\ [](MapLen(lims[1].storage) <= lims[1].limit)
    /\ [][StCalls("Count") => result'.err.n <= lims[1].limit]_vars
    /\ [][AddFails => lims'[1].storage = lims[1].storage]_vars

\* what the code keeps of C40: Add stores only below the capacity, Replace,
\* Remove and Clear never add a key, Count returns the number of stored
\* keys, and a failing Add changes nothing; Upsert adds a key that is not
\* stored whatever the capacity
C40_UnlessUpsertAdds ==
    [][ /\ (StCalls("Add") /\ result'.err.kind = "nil")
              => ( /\ MapLen(lims[1].storage) < lims[1].limit
                   /\ MapLen(lims'[1].storage) = MapLen(lims[1].storage) + 1 )
        /\ (StCalls("Replace") \/ StCalls("Remove") \/ StCalls("Clear"))
              => MapLen(lims'[1].storage) <= MapLen(lims[1].storage)
        /\ StCalls("Count")
              => (result'.err.n = MapLen(lims[1].storage) /\ lims' = lims)
        /\ AddFails => lims' = lims
        /\ StCalls("Upsert")
              => MapLen(lims'[1].storage)
                    = MapLen(lims[1].storage)
                      + (IF result'.err.key \in DOMAIN lims[1].storage THEN 0 ELSE 1)
      ]_vars

\* C40 witness: a storage of capacity 1 holds two keys after three calls,
\* and Count has returned 2.
C40_Witness ==
    /\ lims[1].limit = 1
    /\ DOMAIN lims[1].storage = {"k1", "k2"}
    /\ gCalls = 4
    /\ result.err = [kind |-> "nil", op |-> "Count", key |-> "", n |-> 2]

====
